---- MODULE Spec2Model ----
(***************************************************************************)
(* Admission-control middleware of performance-app-demo:                   *)
(*   tokenBucketLimiter        src/src/middleware/tokenBucket.ts           *)
(*   mockSlidingWindowLimiter  src/src/middleware/mockSlidingWindow.ts     *)
(*   slidingWindowLimiter      src/src/middleware/mockSlidingWindow.ts     *)
(* and its services: retryWithBackoff and withTimeout (faultTolerance.ts), *)
(* the cache (unnamed/part_002), the in-memory database (database.ts),     *)
(* UserService and QueryService (userService.ts), and the routes of        *)
(* server.ts and balancedServer.ts that call them.                         *)
(*                                                                         *)
(* Time.  Date.now()/1000 is read as a number of clock ticks, a tick being *)
(* 1/TicksPerSecond second.  Token amounts are held in units of            *)
(* 1/TicksPerSecond token, so that delta * REFILL_RATE stays an integer:   *)
(* the arithmetic is the exact rational arithmetic of the code (the        *)
(* rounding of IEEE doubles, below 1e-6 token, is not modelled).           *)
(* The Redis TTL of the fixed-window counter is held in seconds.           *)
(***************************************************************************)
EXTENDS Integers, Sequences, FiniteSets, TLC

VARIABLES
    limiter,        \* the middleware the requests of this run go through
    now,            \* the clock, in ticks (Date.now())
    buckets,        \* tokenBucket.ts: Map<string, Bucket>
    windowRequests, \* mockSlidingWindow.ts: Map<string, number[]>
    redisUrl,       \* whether process.env.REDIS_URL is set
    redis,          \* whether the module's Redis client has been created
    store,          \* the Redis keys: key -> [count, ttl], with what the
                    \* checks did during the key's lifetime
    fw,             \* the slidingWindowLimiter calls in flight
    res,            \* the response of the request that completed last
    tbLog,          \* the requests one client sent to tokenBucketLimiter, in order
    slLog,          \* the requests one client sent to the sliding log, in order
    fwExpired,      \* what the counter that expired last had reached
    obs,            \* admissions counted over one interval of windowSeconds
    route,          \* the routes the requests of this run are sent to
    clock,          \* the timers' clock, in milliseconds
    reply,          \* the response of the balancedServer.ts route that completed last
    unstable,       \* GET /unstable: the calls in flight, the responses seen
    retry,          \* the retryWithBackoff call
    race,           \* the withTimeout call
    cache,          \* the Cache module: its Map, its timers, its calls in flight
    db,             \* the DatabaseService calls and the queries they issued
    user            \* the UserService calls in flight

vars == <<limiter, now, buckets, windowRequests, redisUrl, redis, store, fw, res,
          tbLog, slLog, fwExpired, obs, route, clock, reply, unstable, retry,
          race, cache, db, user>>

tbVars == <<buckets, tbLog>>
slVars == <<windowRequests, slLog>>
fwVars == <<redis, store, fw, fwExpired, obs>>
config == <<limiter, redisUrl, route>>
\* The state of the rate limiters, and that of the services behind the
\* other routes
limitedVars == <<now, res, tbVars, slVars, fwVars>>
svcVars == <<clock, reply, unstable, retry, race, cache, db, user>>

-----------------------------------------------------------------------------
(* Bounds of the model *)

TicksPerSecond == 2
MaxTime == 6
MaxLog == 13
\* slidingWindowLimiter calls in flight at once
MaxInFlight == 2
\* steps of the Redis clock per window
StepsPerWindow == 2
\* requests sent on after the counter has passed MAX_REQUESTS
MaxOver == 2
\* steps of the clock of the sliding log
MaxSteps == 3
\* seconds on the clock, and requests sent, in the sliding log's worked example
MaxSeconds == 11
MaxExampleLog == 5
\* the largest maxRetries a caller passes to retryWithBackoff
MaxRetries == 3
\* calls made to the Cache in one run
MaxCacheCalls == 4
\* calls made to the UserService in one run
MaxUserCalls == 3
\* user ids in one request for users with their posts
MaxIds == 3

-----------------------------------------------------------------------------
(* Requests *)

Undefined == "undefined"
Ips == {"10.0.0.1", Undefined}

\* req.ip || 'unknown'
KeyOf(ip) == IF ip = Undefined THEN "unknown" ELSE ip

Min(a, b) == IF a < b THEN a ELSE b
Max(a, b) == IF a > b THEN a ELSE b

Digit(d) == CASE d = 0 -> "0" [] d = 1 -> "1" [] d = 2 -> "2" [] d = 3 -> "3"
              [] d = 4 -> "4" [] d = 5 -> "5" [] d = 6 -> "6" [] d = 7 -> "7"
              [] d = 8 -> "8" [] d = 9 -> "9"

RECURSIVE String(_)
\* String(n) of a non-negative integer: its decimal digits
String(n) == IF n < 10 THEN Digit(n) ELSE String(n \div 10) \o Digit(n % 10)

\* The response object before the middleware touched it.
NoHeaders == [h \in {} |-> ""]
NoBody == [f \in {} |-> ""]
NoResponse ==
    [limiter |-> "none", key |-> "none", status |-> 0, headers |-> NoHeaders,
     body |-> NoBody, nextCalls |-> 0,
     \* of a slidingWindowLimiter call: the value INCR returned (0: none), the
     \* store operation that failed, whether the call's promise rejected
     current |-> 0, failed |-> "none", rejected |-> FALSE]

\* res.set(name, value)
SetHeader(hs, name, value) ==
    [h \in DOMAIN hs \cup {name} |-> IF h = name THEN value ELSE hs[h]]

\* The route handler runs when, and only when, the middleware calls next().
HandlerRuns(r) == r.nextCalls

-----------------------------------------------------------------------------
(* Token bucket *)

REFILL_RATE == 1
BUCKET_CAPACITY == 10
REQUEST_COST == 1

\* Token amounts in units of 1/TicksPerSecond token.
Tokens(n) == n * TicksPerSecond

GetOrCreateAny(key) ==
    IF DOMAIN buckets # {}
    THEN buckets[CHOOSE k \in DOMAIN buckets : TRUE]
    ELSE [tokens |-> Tokens(BUCKET_CAPACITY), lastRefill |-> now]

\* buckets.get(key), or the bucket created for a first request
GetOrCreate(key) ==
    IF key \in DOMAIN buckets
    THEN buckets[key]
    ELSE [tokens |-> Tokens(BUCKET_CAPACITY), lastRefill |-> now]

RefillUncapped(b) ==
    [tokens |-> b.tokens + (now - b.lastRefill) * REFILL_RATE, lastRefill |-> now]

\* delta = now - lastRefill; tokens = min(capacity, tokens + delta * rate);
\* lastRefill = now
Refill(b) ==
    [tokens |-> Min(Tokens(BUCKET_CAPACITY),
                    b.tokens + (now - b.lastRefill) * REFILL_RATE),
     lastRefill |-> now]

TBDeniedAtCost(b) == b.tokens <= Tokens(REQUEST_COST)

\* bucket.tokens < REQUEST_COST
TBDenied(b) == b.tokens < Tokens(REQUEST_COST)

ConsumeNothing(b) == b

\* bucket.tokens -= REQUEST_COST
Consume(b) == [b EXCEPT !.tokens = @ - Tokens(REQUEST_COST)]

TBDenialFallsThrough(key) ==
    [NoResponse EXCEPT
        !.limiter = "token-bucket", !.key = key, !.status = 429,
        !.headers = SetHeader(NoHeaders, "Retry-After", "1"),
        !.body = [error |-> "Rate limit exceeded", algorithm |-> "token-bucket"],
        !.nextCalls = 1]

TBDenial(key) ==
    [NoResponse EXCEPT
        !.limiter = "token-bucket", !.key = key, !.status = 429,
        !.headers = SetHeader(NoHeaders, "Retry-After", "1"),
        !.body = [error |-> "Rate limit exceeded", algorithm |-> "token-bucket"]]

TBAllowed(key) ==
    [NoResponse EXCEPT !.limiter = "token-bucket", !.key = key, !.nextCalls = 1]

\* The limiter with the cost taken before the admission test.
TokenBucketLimiterEager(ip) ==
    LET key == KeyOf(ip)
        b == Refill(GetOrCreate(key))
    IN /\ buckets' = [k \in DOMAIN buckets \cup {key} |->
                         IF k = key THEN Consume(b) ELSE buckets[k]]
       /\ res' = IF TBDenied(b) THEN TBDenial(key) ELSE TBAllowed(key)
       /\ UNCHANGED <<now, config, svcVars, slVars, fwVars>>

\* tokenBucketLimiter(req, res, next): synchronous, so one atomic step
TokenBucketLimiter(ip) ==
    LET key == KeyOf(ip)
        b == Refill(GetOrCreate(key))
        after == IF TBDenied(b) THEN b ELSE Consume(b)
    IN /\ buckets' = [k \in DOMAIN buckets \cup {key} |->
                         IF k = key THEN after ELSE buckets[k]]
       /\ res' = IF TBDenied(b) THEN TBDenial(key) ELSE TBAllowed(key)
       /\ UNCHANGED <<now, config, svcVars, slVars, fwVars>>

\* Time passes between two requests.
Tick ==
    /\ now < MaxTime
    /\ now' = now + 1
    /\ UNCHANGED <<buckets, res, config, svcVars, slVars, fwVars>>

\* What a client calling the limiter in a loop sees of each call
\* (demo.ts testRateLimiter: nextCalled, status), with the bucket's level at
\* the admission check.
TBObserve(ip) ==
    LET key == KeyOf(ip)
        allowed == res'.nextCalls = 1
    IN tbLog' = Append(tbLog,
           [t |-> now, allowed |-> allowed,
            tokens |-> buckets'[key].tokens
                         + (IF allowed THEN Tokens(REQUEST_COST) ELSE 0)])

-----------------------------------------------------------------------------
(* Sliding log (mockSlidingWindowLimiter) *)

\* The two window limiters declare the same two constants with the same
\* values (mockSlidingWindow.ts:5-6 and 42-43).
WINDOW_SIZE_IN_SECONDS == 60
MAX_REQUESTS == 100

\* WINDOW_SIZE_IN_SECONDS on the clock's scale
WindowTicks == WINDOW_SIZE_IN_SECONDS * TicksPerSecond

\* windowRequests.get(key) || []
GetRequests(key) ==
    IF key \in DOMAIN windowRequests THEN windowRequests[key] ELSE <<>>

\* requests.filter(timestamp => (now - timestamp) < WINDOW_SIZE_IN_SECONDS),
\* for a clock reading t and a window of windowTicks
InWindowInclusive(requests, t, windowTicks) ==
    SelectSeq(requests, LAMBDA timestamp : (t - timestamp) <= windowTicks)

InWindowInSeconds(requests, t, windowTicks) ==
    SelectSeq(requests,
              LAMBDA timestamp : (t - timestamp) < windowTicks \div TicksPerSecond)

InWindowOf(requests, t, windowTicks) ==
    SelectSeq(requests, LAMBDA timestamp : (t - timestamp) < windowTicks)

InWindow(requests) == InWindowOf(requests, now, WindowTicks)

SLDenialOf(key, windowSeconds) ==
    [NoResponse EXCEPT
        !.limiter = "sliding-window-mock", !.key = key, !.status = 429,
        !.headers = SetHeader(NoHeaders, "Retry-After", String(windowSeconds)),
        !.body = [error |-> "Too many requests",
                  algorithm |-> "sliding-window-mock"]]

SLDenial(key) == SLDenialOf(key, WINDOW_SIZE_IN_SECONDS)

SLAllowedOf(key, requests, maxRequests) ==
    [NoResponse EXCEPT
        !.limiter = "sliding-window-mock", !.key = key,
        !.headers = SetHeader(
            SetHeader(NoHeaders, "X-RateLimit-Limit", String(maxRequests)),
            "X-RateLimit-Remaining",
            String(Max(0, maxRequests - Len(requests)))),
        !.nextCalls = 1]

SLAllowed(key, requests) == SLAllowedOf(key, requests, MAX_REQUESTS)

\* The admission check on one identity's log at clock reading t: whether the
\* request is allowed, and the log after requests.push(now).
SlidingLogAtLimit(requests, t, windowTicks, maxRequests) ==
    LET kept == InWindowOf(requests, t, windowTicks)
    IN IF Len(kept) > maxRequests
       THEN [allowed |-> FALSE, requests |-> kept]
       ELSE [allowed |-> TRUE, requests |-> Append(kept, t)]

SlidingLog(requests, t, windowTicks, maxRequests) ==
    LET kept == InWindowOf(requests, t, windowTicks)
    IN IF Len(kept) >= maxRequests
       THEN [allowed |-> FALSE, requests |-> kept]
       ELSE [allowed |-> TRUE, requests |-> Append(kept, t)]

MockSlidingWindowLimiterRecordsDenied(ip, windowSeconds, maxRequests) ==
    LET key == KeyOf(ip)
        requests == Append(
            InWindowOf(GetRequests(key), now, windowSeconds * TicksPerSecond),
            now)
    IN /\ windowRequests' =
              [k \in DOMAIN windowRequests \cup {key} |->
                  IF k = key THEN requests ELSE windowRequests[k]]
       /\ res' = IF Len(requests) > maxRequests
                 THEN SLDenialOf(key, windowSeconds)
                 ELSE SLAllowedOf(key, requests, maxRequests)
       /\ UNCHANGED <<now, config, svcVars, tbVars, fwVars>>

\* mockSlidingWindowLimiter(req, res, next) with its two constants as
\* parameters: an async function without an await, so it runs to its end in
\* one step. A denial returns before windowRequests.set.
MockSlidingWindowLimiterWith(ip, windowSeconds, maxRequests) ==
    LET key == KeyOf(ip)
        check == SlidingLog(GetRequests(key), now,
                            windowSeconds * TicksPerSecond, maxRequests)
    IN /\ IF check.allowed
          THEN /\ windowRequests' =
                     [k \in DOMAIN windowRequests \cup {key} |->
                         IF k = key THEN check.requests ELSE windowRequests[k]]
               /\ res' = SLAllowedOf(key, check.requests, maxRequests)
          ELSE /\ res' = SLDenialOf(key, windowSeconds)
               /\ UNCHANGED windowRequests
       /\ UNCHANGED <<now, config, svcVars, tbVars, fwVars>>

MockSlidingWindowLimiter(ip) ==
    MockSlidingWindowLimiterWith(ip, WINDOW_SIZE_IN_SECONDS, MAX_REQUESTS)

\* What a client calling the limiter in a loop sees of each call (demo.ts
\* testRateLimiter: nextCalled, status).
SLObserve(ip) ==
    slLog' = Append(slLog, [t |-> now, allowed |-> res'.nextCalls = 1])

\* The same, keeping only the admissions and only those of the last
\* windowSeconds.
SLObserveAdmissions(ip) ==
    LET recent == SelectSeq(slLog, LAMBDA e : e.t > now - WindowTicks)
    IN slLog' = IF res'.nextCalls = 1
                THEN Append(recent, [t |-> now, allowed |-> TRUE])
                ELSE slLog

\* Time passes between two requests to the sliding log, half a window at a
\* time.
HalfWindow == WindowTicks \div 2
SLElapse ==
    /\ now < MaxSteps * HalfWindow
    /\ now' = now + HalfWindow
    /\ UNCHANGED <<res, config, svcVars, tbVars, slVars, fwVars>>

\* The same, a second at a time.
SLSecond ==
    /\ now < MaxSeconds * TicksPerSecond
    /\ now' = now + TicksPerSecond
    /\ UNCHANGED <<res, config, svcVars, tbVars, slVars, fwVars>>

-----------------------------------------------------------------------------
(* Fixed-window counter in Redis (slidingWindowLimiter) *)

Procs == 1..MaxInFlight

\* A Redis key without a TTL
NoExpiry == -1

Idle == [pc |-> "idle", ip |-> Undefined, current |-> 0]

\* `rl:${req.ip || 'unknown'}`
RateKey(ip) == "rl:" \o KeyOf(ip)

CountOf(key) == IF key \in DOMAIN store THEN store[key].count ELSE 0

\* The tally of a key's lifetime is not kept once a command on the key has
\* failed.
NoTally == -1

\* INCR key: the counter after the increment; a new key has no TTL. (Kept
\* with the key for the time it lives, as long as the store answers every
\* command on it: the requests its count check allowed, the replies that
\* carried the value 1, the EXPIREs applied.)
Incr(key) ==
    [k \in DOMAIN store \cup {key} |->
        IF k # key THEN store[k]
        ELSE IF key \in DOMAIN store
        THEN [store[key] EXCEPT !.count = @ + 1]
        ELSE [count |-> 1, ttl |-> NoExpiry,
              admitted |-> 0, firsts |-> 0, expiries |-> 0]]

ExpireHalf(key, seconds) ==
    [k \in DOMAIN store |->
        IF k = key
        THEN [store[k] EXCEPT
                 !.ttl = seconds \div 2,
                 !.expiries = IF @ = NoTally THEN @ ELSE @ + 1]
        ELSE store[k]]

\* EXPIRE key seconds: sets the TTL of an existing key
Expire(key, seconds) ==
    [k \in DOMAIN store |->
        IF k = key
        THEN [store[k] EXCEPT
                 !.ttl = seconds,
                 !.expiries = IF @ = NoTally THEN @ ELSE @ + 1]
        ELSE store[k]]

\* The reply to INCR reached the check, with the value current.
CountFirst(st, key, current) ==
    IF current = 1 /\ st[key].firsts # NoTally
    THEN [st EXCEPT ![key].firsts = @ + 1]
    ELSE st

\* The count check of a request ended with the response r.
CountAdmission(st, key, r) ==
    IF key \in DOMAIN st /\ st[key].admitted # NoTally
    THEN [st EXCEPT ![key].admitted = @ + r.nextCalls]
    ELSE st

\* A command on key has failed.
Untallied(st, key) ==
    IF key \in DOMAIN st
    THEN [st EXCEPT ![key].admitted = NoTally, ![key].firsts = NoTally,
                    ![key].expiries = NoTally]
    ELSE st

FWResponse(ip) ==
    [NoResponse EXCEPT !.limiter = "sliding-window", !.key = KeyOf(ip)]

FWFailClosed(ip, op) ==
    [FWResponse(ip) EXCEPT
        !.status = 429, !.failed = op,
        !.body = [error |-> "Too many requests", algorithm |-> "sliding-window"]]

\* catch (error) { console.error(...); next(); }
FWFailOpen(ip, op) ==
    [FWResponse(ip) EXCEPT !.nextCalls = 1, !.failed = op]

FWExceedsAtLimit(current) == current >= MAX_REQUESTS

\* current > MAX_REQUESTS
FWExceeds(current) == current > MAX_REQUESTS

FWDecideStale(ip, current) ==
    IF FWExceeds(current)
    THEN [FWResponse(ip) EXCEPT
            !.status = 429, !.current = current,
            !.headers = SetHeader(NoHeaders, "Retry-After", "1"),
            !.body = [error |-> "Too many requests",
                      algorithm |-> "sliding-window"]]
    ELSE [FWResponse(ip) EXCEPT
            !.current = current,
            !.headers = SetHeader(
                SetHeader(NoHeaders, "X-RateLimit-Limit", String(MAX_REQUESTS)),
                "X-RateLimit-Remaining",
                String(Max(0, MAX_REQUESTS - (current - 1)))),
            !.nextCalls = 1]

\* The code after the store operations: the 429, or the headers and next().
FWDecide(ip, current) ==
    IF FWExceeds(current)
    THEN [FWResponse(ip) EXCEPT
            !.status = 429, !.current = current,
            !.headers = SetHeader(NoHeaders, "Retry-After",
                                  String(WINDOW_SIZE_IN_SECONDS)),
            !.body = [error |-> "Too many requests",
                      algorithm |-> "sliding-window"]]
    ELSE [FWResponse(ip) EXCEPT
            !.current = current,
            !.headers = SetHeader(
                SetHeader(NoHeaders, "X-RateLimit-Limit", String(MAX_REQUESTS)),
                "X-RateLimit-Remaining",
                String(Max(0, MAX_REQUESTS - current))),
            !.nextCalls = 1]

\* An observer counts the requests admitted from some moment on, for
\* windowSeconds (both ends included), and then stops.
NotObserving == [age |-> -1, count |-> 0]
Observing == obs.age >= 0
Observed(r) ==
    IF Observing /\ r.nextCalls > 0
    THEN [obs EXCEPT !.count = @ + r.nextCalls]
    ELSE obs

\* slidingWindowLimiter up to its first await: initializeRedis(), which
\* throws without REDIS_URL, then the INCR is sent. (Clients stop sending
\* once the counter is MaxOver past MAX_REQUESTS: the counter itself has no
\* upper limit.)
FWStart(p, ip) ==
    /\ fw[p].pc = "idle"
    /\ CountOf(RateKey(ip)) < MAX_REQUESTS + MaxOver
    /\ IF ~redis /\ ~redisUrl
       THEN /\ res' = FWFailOpen(ip, "init")
            /\ obs' = Observed(res')
            /\ UNCHANGED <<redis, fw>>
       ELSE /\ redis' = TRUE
            /\ fw' = [fw EXCEPT ![p] = [pc |-> "incr", ip |-> ip, current |-> 0]]
            /\ UNCHANGED <<res, obs>>
    /\ UNCHANGED <<now, config, svcVars, tbVars, slVars, store, fwExpired>>

\* A limiter that sends the EXPIRE after every INCR.
FWIncrReplyRenews(p) ==
    LET key == RateKey(fw[p].ip)
        current == CountOf(key) + 1
    IN /\ fw[p].pc = "incr"
       /\ store' = CountFirst(Incr(key), key, current)
       /\ fw' = [fw EXCEPT ![p].pc = "expire", ![p].current = current]
       /\ UNCHANGED <<res, obs>>
       /\ UNCHANGED <<now, config, svcVars, tbVars, slVars, redis, fwExpired>>

\* An increment that is a read followed by a write: the write of a check is
\* lost when another check of the key is between its own read and write.
FWIncrReplyLost(p) ==
    LET key == RateKey(fw[p].ip)
        current == CountOf(key) + 1
        lost == /\ key \in DOMAIN store
                /\ \E q \in Procs \ {p} :
                      fw[q].pc = "incr" /\ RateKey(fw[q].ip) = key
        written == IF lost THEN store ELSE Incr(key)
    IN /\ fw[p].pc = "incr"
       /\ IF current = 1
          THEN /\ store' = CountFirst(written, key, current)
               /\ fw' = [fw EXCEPT ![p].pc = "expire", ![p].current = current]
               /\ UNCHANGED <<res, obs>>
          ELSE /\ store' = CountAdmission(written, key,
                                          FWDecide(fw[p].ip, current))
               /\ fw' = [fw EXCEPT ![p] = Idle]
               /\ res' = FWDecide(fw[p].ip, current)
               /\ obs' = Observed(res')
       /\ UNCHANGED <<now, config, svcVars, tbVars, slVars, redis, fwExpired>>

\* await redisClient.incr(key) resolves: Redis has incremented the counter;
\* on 1 the EXPIRE is sent, otherwise the call runs to its end.
FWIncrReply(p) ==
    LET key == RateKey(fw[p].ip)
        current == CountOf(key) + 1
    IN /\ fw[p].pc = "incr"
       /\ IF current = 1
          THEN /\ store' = CountFirst(Incr(key), key, current)
               /\ fw' = [fw EXCEPT ![p].pc = "expire", ![p].current = current]
               /\ UNCHANGED <<res, obs>>
          ELSE /\ store' = CountAdmission(Incr(key), key,
                                          FWDecide(fw[p].ip, current))
               /\ fw' = [fw EXCEPT ![p] = Idle]
               /\ res' = FWDecide(fw[p].ip, current)
               /\ obs' = Observed(res')
       /\ UNCHANGED <<now, config, svcVars, tbVars, slVars, redis, fwExpired>>

\* await redisClient.expire(key, 60) resolves: Redis has set the TTL.
FWExpireReply(p) ==
    LET key == RateKey(fw[p].ip)
    IN /\ fw[p].pc = "expire"
       /\ store' = CountAdmission(Expire(key, WINDOW_SIZE_IN_SECONDS), key,
                                  FWDecide(fw[p].ip, fw[p].current))
       /\ fw' = [fw EXCEPT ![p] = Idle]
       /\ res' = FWDecide(fw[p].ip, fw[p].current)
       /\ obs' = Observed(res')
       /\ UNCHANGED <<now, config, svcVars, tbVars, slVars, redis, fwExpired>>

\* await redisClient.incr(key) rejects; Redis may or may not have run the
\* command before the connection failed.
FWIncrFail(p, applied) ==
    LET key == RateKey(fw[p].ip)
    IN /\ fw[p].pc = "incr"
       /\ store' = Untallied(IF applied THEN Incr(key) ELSE store, key)
       /\ fw' = [fw EXCEPT ![p] = Idle]
       /\ res' = FWFailOpen(fw[p].ip, "incr")
       /\ obs' = Observed(res')
       /\ UNCHANGED <<now, config, svcVars, tbVars, slVars, redis, fwExpired>>

\* await redisClient.expire(key, 60) rejects, the TTL set or not.
FWExpireFail(p, applied) ==
    LET key == RateKey(fw[p].ip)
    IN /\ fw[p].pc = "expire"
       /\ store' = Untallied(IF applied
                             THEN Expire(key, WINDOW_SIZE_IN_SECONDS)
                             ELSE store, key)
       /\ fw' = [fw EXCEPT ![p] = Idle]
       /\ res' = FWFailOpen(fw[p].ip, "expire")
       /\ obs' = Observed(res')
       /\ UNCHANGED <<now, config, svcVars, tbVars, slVars, redis, fwExpired>>

StepSeconds == WINDOW_SIZE_IN_SECONDS \div StepsPerWindow

Expiring == {k \in DOMAIN store : store[k].ttl # NoExpiry /\ store[k].ttl <= StepSeconds}

\* Redis' clock advances by a part of the window: the TTLs run down and the
\* keys whose TTL has run out are deleted. (slidingWindowLimiter reads no
\* clock of its own.)
FWElapse ==
    /\ store' = [k \in DOMAIN store \ Expiring |->
                    IF store[k].ttl = NoExpiry
                    THEN store[k]
                    ELSE [store[k] EXCEPT !.ttl = @ - StepSeconds]]
    /\ fwExpired' =
          IF Expiring = {} THEN fwExpired
          ELSE IF \E k \in Expiring : store[k].count > MAX_REQUESTS
               THEN "exceeded" ELSE "within"
    /\ obs' = IF ~Observing THEN obs
              ELSE IF obs.age + StepSeconds > WINDOW_SIZE_IN_SECONDS
                   THEN NotObserving
                   ELSE [obs EXCEPT !.age = @ + StepSeconds]
    /\ \/ store' # store
       \/ obs' # obs
    /\ UNCHANGED <<now, config, svcVars, tbVars, slVars, redis, fw, res>>

\* The observer starts counting.
StartObserving ==
    /\ obs = NotObserving
    /\ obs' = [age |-> 0, count |-> 0]
    /\ UNCHANGED <<now, config, svcVars, tbVars, slVars, redis, store, fw, res, fwExpired>>

-----------------------------------------------------------------------------
(* GET /unstable (balancedServer.ts) through executeWithCircuitBreaker *)

\* How the promise of circuitBreaker.fire() settles: resolved with the
\* operation's result, or rejected because the breaker is open, because the
\* operation threw, or because the breaker's timeout passed.
FireOutcomes == {"resolved", "open", "failed", "timedOut"}

\* The value or the error the promise of fire() settles with
FireSettles(outcome) ==
    CASE outcome = "resolved" -> [ok |-> TRUE, value |-> "Success"]
      [] outcome = "open" -> [ok |-> FALSE, value |-> "Breaker is open"]
      [] outcome = "failed" -> [ok |-> FALSE, value |-> "Random failure"]
      [] outcome = "timedOut" ->
             [ok |-> FALSE, value |-> "Timed out after 3000ms"]

\* executeWithCircuitBreaker(): the catch throws a new Error whatever the
\* error caught
ExecuteWithCircuitBreaker(fired) ==
    IF fired.ok
    THEN fired
    ELSE [ok |-> FALSE, value |-> "Service unavailable due to circuit breaker"]

NoReply == [route |-> "none", status |-> 0, body |-> NoBody]

\* res.json(body) answers with status 200 unless res.status was called
UnstableReply(result) ==
    IF result.ok
    THEN [route |-> "/unstable", status |-> 200,
          body |-> [result |-> result.value]]
    ELSE [route |-> "/unstable", status |-> 503,
          body |-> [error |-> "Service unavailable",
                    message |-> result.value]]

UnstableInit ==
    [pc |-> [p \in Procs |-> "idle"], cause |-> [p \in Procs |-> "none"],
     result |-> [p \in Procs |-> [ok |-> TRUE, value |-> ""]], seen |-> {}]

\* A request arrives: the handler calls executeWithCircuitBreaker, which
\* calls fire() and awaits it.
UnstableStart(p) ==
    /\ unstable.pc[p] = "idle"
    /\ unstable' = [unstable EXCEPT !.pc[p] = "fire"]
    /\ UNCHANGED <<config, limitedVars, clock, reply, retry, race, cache, db, user>>

\* The promise of fire() settles: executeWithCircuitBreaker returns or
\* throws, which settles the promise the handler awaits.
UnstableSettle(p, outcome) ==
    /\ unstable.pc[p] = "fire"
    /\ unstable' =
           [unstable EXCEPT
               !.pc[p] = "execute", !.cause[p] = outcome,
               !.result[p] = ExecuteWithCircuitBreaker(FireSettles(outcome))]
    /\ UNCHANGED <<config, limitedVars, clock, reply, retry, race, cache, db, user>>

\* The handler answers. seen keeps every answer with the way fire() had
\* settled.
UnstableAnswer(p) ==
    LET answer == UnstableReply(unstable.result[p])
    IN /\ unstable.pc[p] = "execute"
       /\ reply' = answer
       /\ unstable' =
              [unstable EXCEPT
                  !.pc[p] = "idle", !.cause[p] = "none",
                  !.result[p] = UnstableInit.result[p],
                  !.seen = @ \cup {[cause |-> unstable.cause[p],
                                    status |-> answer.status,
                                    body |-> answer.body]}]
       /\ UNCHANGED <<config, limitedVars, clock, retry, race, cache, db, user>>

-----------------------------------------------------------------------------
(* retryWithBackoff (faultTolerance.ts) and GET /retry-demo *)

\* The arguments of GET /retry-demo and the defaults of the parameters
RetryDemo == [maxRetries |-> 3, baseDelay |-> 500]
RetryDefault == [maxRetries |-> 3, baseDelay |-> 1000]
BaseDelays == {RetryDemo.baseDelay, RetryDefault.baseDelay}

\* What an operation may throw, what it may return, and how long it may
\* take to settle, in milliseconds
Errors == {"Random failure", "Another failure"}
Values == {"Success after retries"}
Latencies == {0, 100}

NoError == "undefined"

RECURSIVE Pow2(_)
\* Math.pow(2, n)
Pow2(n) == IF n = 0 THEN 1 ELSE 2 * Pow2(n - 1)

DelayConstant(baseDelay, attempt) == baseDelay

\* baseDelay * Math.pow(2, attempt)
Delay(baseDelay, attempt) == baseDelay * Pow2(attempt)

ExhaustedEarly(attempt, maxRetries) == attempt + 1 >= maxRetries

ExhaustedNever(attempt, maxRetries) == FALSE

\* if (attempt === maxRetries) break
Exhausted(attempt, maxRetries) == attempt = maxRetries

CaughtFirst(lastError, error) ==
    IF lastError = NoError THEN error ELSE lastError

\* lastError = error as Error
Caught(lastError, error) == error

RetryInit ==
    [pc |-> "idle", caller |-> "none", maxRetries |-> 0, baseDelay |-> 0,
     attempt |-> 0, lastError |-> NoError, due |-> 0,
     outcome |-> [ok |-> TRUE, value |-> ""],
     \* what happened: the operation's invocations, the errors it threw in
     \* order, the delays waited in order, when the call was made
     calls |-> 0, errors |-> <<>>, waits |-> <<>>, since |-> 0]

\* retryWithBackoff(operation, maxRetries, baseDelay) is called: the loop
\* starts at attempt 0, invokes the operation and awaits it. A maxRetries
\* below 0 is not modelled.
RetryWithBackoff(caller, maxRetries, baseDelay) ==
    /\ retry.pc = "idle"
    /\ retry' = [retry EXCEPT
                    !.pc = "operation", !.caller = caller,
                    !.maxRetries = maxRetries, !.baseDelay = baseDelay,
                    !.calls = 1, !.since = clock]
    /\ UNCHANGED <<config, limitedVars, clock, reply, unstable, race, cache, db, user>>

\* The operation's promise resolves after d milliseconds: return await
\* operation()
RetryResolves(value, d) ==
    /\ retry.pc = "operation"
    /\ clock' = clock + d
    /\ retry' = [retry EXCEPT
                    !.pc = "settled", !.outcome = [ok |-> TRUE, value |-> value]]
    /\ UNCHANGED <<config, limitedVars, reply, unstable, race, cache, db, user>>

\* The operation's promise rejects after d milliseconds: the catch block,
\* up to the break or up to the await of the timer's promise
RetryRejects(error, d) ==
    LET lastError == Caught(retry.lastError, error)
        delay == Delay(retry.baseDelay, retry.attempt)
    IN /\ retry.pc = "operation"
       /\ clock' = clock + d
       /\ IF Exhausted(retry.attempt, retry.maxRetries)
          THEN retry' = [retry EXCEPT
                            !.pc = "settled", !.lastError = lastError,
                            !.errors = Append(@, error),
                            !.outcome = [ok |-> FALSE, value |-> lastError]]
          ELSE retry' = [retry EXCEPT
                            !.pc = "timer", !.lastError = lastError,
                            !.errors = Append(@, error),
                            !.waits = Append(@, delay),
                            !.due = clock' + delay]
       /\ UNCHANGED <<config, limitedVars, reply, unstable, race, cache, db, user>>

\* The wait is given up from outside and its promise never resolves.
RetryTimerCancelled ==
    /\ retry.pc = "timer"
    /\ retry' = [retry EXCEPT !.pc = "cancelled"]
    /\ UNCHANGED <<config, limitedVars, clock, reply, unstable, race, cache, db, user>>

\* The timer fires: attempt++, and the loop's test decides between the next
\* invocation and throw lastError.
RetryTimer ==
    /\ retry.pc = "timer"
    /\ clock' = retry.due
    /\ IF retry.attempt + 1 <= retry.maxRetries
       THEN retry' = [retry EXCEPT
                         !.pc = "operation", !.attempt = @ + 1,
                         !.calls = @ + 1]
       ELSE retry' = [retry EXCEPT
                         !.pc = "settled", !.attempt = @ + 1,
                         !.outcome = [ok |-> FALSE, value |-> retry.lastError]]
    /\ UNCHANGED <<config, limitedVars, reply, unstable, race, cache, db, user>>

\* GET /retry-demo answers once retryWithBackoff has settled.
RetryDemoReply(outcome) ==
    IF outcome.ok
    THEN [route |-> "/retry-demo", status |-> 200,
          body |-> [result |-> outcome.value]]
    ELSE [route |-> "/retry-demo", status |-> 500,
          body |-> [error |-> "Failed after retries",
                    message |-> outcome.value]]

RetryDemoAnswer ==
    /\ retry.pc = "settled"
    /\ retry.caller = "/retry-demo"
    /\ reply' = RetryDemoReply(retry.outcome)
    /\ retry' = [retry EXCEPT !.pc = "answered"]
    /\ UNCHANGED <<config, limitedVars, clock, unstable, race, cache, db, user>>

-----------------------------------------------------------------------------
(* withTimeout (faultTolerance.ts) and GET /timeout-demo *)

\* The timeout of GET /timeout-demo; the timeouts of other callers
TimeoutDemo == [timeoutMs |-> 2000]
Timeouts == {1000, TimeoutDemo.timeoutMs}

\* How long an operation may take to settle, in milliseconds, and what it
\* may settle with
Durations == {1000, 3000}
Completed == [ok |-> TRUE, value |-> "Operation completed"]
Thrown == [ok |-> FALSE, value |-> "Operation failed"]
TimedOut == [ok |-> FALSE, value |-> "Operation timed out"]
Unsettled == [ok |-> TRUE, value |-> "pending"]

SettleLast(settled, outcome, with) == with

\* Promise.race: the promise it returns takes the outcome of the first of
\* the two promises to settle; resolving or rejecting a promise that is
\* already settled does nothing.
Settle(settled, outcome, with) == IF settled THEN outcome ELSE with

LoserStopped(side) == [side EXCEPT !.state = "stopped"]

\* What withTimeout does to the side that lost the race: nothing, there is
\* neither a clearTimeout nor a cancellation of the operation.
Loser(side) == side

NoRace ==
    [pc |-> "idle", caller |-> "none", timeoutMs |-> 0, since |-> 0,
     op |-> [state |-> "none", due |-> 0, result |-> Unsettled],
     timer |-> [state |-> "none", due |-> 0],
     settled |-> FALSE, outcome |-> Unsettled, winner |-> "none"]

RaceInit == [p \in Procs |-> NoRace]

\* When the callbacks still to come are due, apart from the operation of
\* call p or from its timer
OtherDues(p, side) ==
    {race[q].op.due : q \in {q \in Procs : race[q].op.state = "pending"
                                            /\ (q # p \/ side # "op")}}
    \cup
    {race[q].timer.due : q \in {q \in Procs : race[q].timer.state = "pending"
                                               /\ (q # p \/ side # "timer")}}

\* withTimeout(operation, timeoutMs) is called: operation() is invoked, the
\* timer is set, and the caller awaits the race. The operation will settle
\* d milliseconds from now.
WithTimeout(p, caller, timeoutMs, d) ==
    /\ race[p].pc = "idle"
    /\ race' = [race EXCEPT
                   ![p].pc = "racing", ![p].caller = caller,
                   ![p].timeoutMs = timeoutMs, ![p].since = clock,
                   ![p].op = [state |-> "pending", due |-> clock + d,
                              result |-> Unsettled],
                   ![p].timer = [state |-> "pending",
                                 due |-> clock + timeoutMs]]
    /\ UNCHANGED <<config, limitedVars, clock, reply, unstable, retry, cache, db, user>>

\* The operation's promise settles, unless something else is due earlier.
RaceOperationSettles(p, result) ==
    /\ race[p].op.state = "pending"
    /\ \A due \in OtherDues(p, "op") : race[p].op.due <= due
    /\ clock' = race[p].op.due
    /\ race' = [race EXCEPT
                   ![p].pc = IF race[p].settled THEN @ ELSE "settled",
                   ![p].op.state = "settled", ![p].op.result = result,
                   ![p].timer = IF race[p].settled THEN @ ELSE Loser(@),
                   ![p].outcome = Settle(race[p].settled, @, result),
                   ![p].winner = IF race[p].settled THEN @ ELSE "operation",
                   ![p].settled = TRUE]
    /\ UNCHANGED <<config, limitedVars, reply, unstable, retry, cache, db, user>>

\* The timer fires, unless something else is due earlier: reject(new
\* Error('Operation timed out')).
RaceTimerFires(p) ==
    /\ race[p].timer.state = "pending"
    /\ \A due \in OtherDues(p, "timer") : race[p].timer.due <= due
    /\ clock' = race[p].timer.due
    /\ race' = [race EXCEPT
                   ![p].pc = IF race[p].settled THEN @ ELSE "settled",
                   ![p].timer.state = "fired",
                   ![p].op = IF race[p].settled THEN @ ELSE Loser(@),
                   ![p].outcome = Settle(race[p].settled, @, TimedOut),
                   ![p].winner = IF race[p].settled THEN @ ELSE "timer",
                   ![p].settled = TRUE]
    /\ UNCHANGED <<config, limitedVars, reply, unstable, retry, cache, db, user>>

\* GET /timeout-demo answers once the race has settled: 408 for whatever
\* error it catches.
TimeoutDemoReply(outcome) ==
    IF outcome.ok
    THEN [route |-> "/timeout-demo", status |-> 200,
          body |-> [result |-> outcome.value]]
    ELSE [route |-> "/timeout-demo", status |-> 408,
          body |-> [error |-> "Request timeout", message |-> outcome.value]]

TimeoutDemoAnswer(p) ==
    /\ race[p].pc = "settled"
    /\ race[p].caller = "/timeout-demo"
    /\ reply' = TimeoutDemoReply(race[p].outcome)
    /\ race' = [race EXCEPT ![p].pc = "answered"]
    /\ UNCHANGED <<config, limitedVars, clock, unstable, retry, cache, db, user>>

-----------------------------------------------------------------------------
(* Cache (unnamed/part_002) *)

\* The simulated latency of every Cache method, in milliseconds
CacheLatency == 5

CacheKeys == {"user:user123"}
CacheValues == {"John Doe", "Jane Smith"}
Ttls == {1, 2}

\* JSON.stringify and JSON.parse, on strings
Stringify(value) == "\"" \o value \o "\""
Parse(json) == CHOOSE value \in CacheValues : Stringify(value) = json

Null == "null"
NoCall == [pc |-> "idle", key |-> "", value |-> "", ttl |-> 0, due |-> 0]

CacheInit ==
    [map |-> [k \in {} |-> ""], timers |-> {},
     calls |-> [p \in Procs |-> NoCall], result |-> Null, count |-> 0,
     \* per key, when its most recent set was written and with what, until
     \* a del
     last |-> [k \in {} |-> 0]]

\* When the callbacks still to come are due: those of the Cache and the
\* database queries of getUserProfile
CacheDues ==
    {cache.calls[p].due : p \in {q \in Procs : cache.calls[q].pc # "idle"}}
    \cup {t.due : t \in cache.timers}
    \cup {user.calls[p].due : p \in {q \in Procs : user.calls[q].pc = "db"}}

\* get, set or del is called: await new Promise(resolve =>
\* setTimeout(resolve, 5))
CacheCalled(t, p, method, key, value, ttlSeconds) ==
    /\ cache.calls[p].pc = "idle"
    /\ cache' = [cache EXCEPT
                    !.calls[p] = [pc |-> method, key |-> key, value |-> value,
                                  ttl |-> ttlSeconds,
                                  due |-> t + CacheLatency],
                    !.count = @ + 1]

CacheCall(p, method, key, value, ttlSeconds) ==
    /\ cache.count < MaxCacheCalls
    /\ CacheCalled(clock, p, method, key, value, ttlSeconds)
    /\ UNCHANGED <<config, limitedVars, clock, reply, unstable, retry, race, db, user>>

Without(map, key) == [k \in DOMAIN map \ {key} |-> map[k]]
With(map, key, value) ==
    [k \in DOMAIN map \cup {key} |-> IF k = key THEN value ELSE map[k]]

\* The latency has passed and the method runs to its end.
CacheReturned(p) ==
    LET call == cache.calls[p]
    IN /\ call.pc # "idle"
       /\ \A due \in CacheDues : call.due <= due
       /\ clock' = call.due
       /\ CASE call.pc = "get" ->
                 cache' = [cache EXCEPT
                              !.calls[p] = NoCall,
                              !.result = IF call.key \in DOMAIN cache.map
                                         THEN Parse(cache.map[call.key])
                                         ELSE Null]
            [] call.pc = "set" ->
                 cache' = [cache EXCEPT
                              !.calls[p] = NoCall,
                              !.map = With(@, call.key, Stringify(call.value)),
                              !.timers = @ \cup
                                  {[key |-> call.key,
                                    due |-> clock' + call.ttl * 1000]},
                              !.last = With(@, call.key,
                                            [at |-> clock', ttl |-> call.ttl,
                                             value |-> call.value])]
            [] call.pc = "del" ->
                 cache' = [cache EXCEPT
                              !.calls[p] = NoCall,
                              !.map = Without(@, call.key),
                              !.last = Without(@, call.key)]

CacheReturn(p) ==
    /\ CacheReturned(p)
    /\ UNCHANGED <<config, limitedVars, reply, unstable, retry, race, db, user>>

\* A timer set by set() fires: cache.delete(key)
CacheExpire(timer) ==
    /\ timer \in cache.timers
    /\ \A due \in CacheDues : timer.due <= due
    /\ clock' = timer.due
    /\ cache' = [cache EXCEPT
                    !.map = Without(@, timer.key),
                    !.timers = @ \ {timer}]
    /\ UNCHANGED <<config, limitedVars, reply, unstable, retry, race, db, user>>

-----------------------------------------------------------------------------
(* DatabaseService (database.ts): users with their posts *)

\* The ids seedData gives the users, and ids a request may name
SeededUsers == {"user123", "user456", "user789", "user101", "user202"}
RequestedIds == {"user123", "user456", "nobody"}

\* userIds.map(id => this.users.get(id)).filter(user => user !== undefined)
FoundUsers(userIds) == SelectSeq(userIds, LAMBDA id : id \in SeededUsers)

\* postsByUser after seedData: the ids of each user's posts, in the order of
\* samplePosts
PostsByUser ==
    [id \in SeededUsers |->
        CASE id = "user123" -> <<"post1", "post2", "post3">>
          [] id = "user456" -> <<"post4", "post5">>
          [] id = "user789" -> <<"post6", "post7", "post8">>
          [] id = "user101" -> <<"post9">>
          [] id = "user202" -> <<"post10", "post11">>]

\* getPostsByUserId(userId): this.postsByUser.get(userId) || []
GetPostsByUserIdFirst(userId) ==
    IF userId \in DOMAIN PostsByUser THEN SubSeq(PostsByUser[userId], 1, 1)
    ELSE <<>>
GetPostsByUserId(userId) ==
    IF userId \in DOMAIN PostsByUser THEN PostsByUser[userId] ELSE <<>>

\* getPostsByUserIds(userIds): a Map with an entry for each id of userIds
GetPostsByUserIds(userIds) ==
    [userId \in {userIds[k] : k \in 1..Len(userIds)} |->
        LET postIds == IF userId \in DOMAIN PostsByUser
                       THEN PostsByUser[userId] ELSE <<>>
        IN postIds]

\* users.map(user => ({ ...user, posts: postsMap.get(user.id) || [] }))
Combine(users, postsMap) ==
    [k \in 1..Len(users) |->
        [user |-> users[k],
         posts |-> IF users[k] \in DOMAIN postsMap THEN postsMap[users[k]]
                   ELSE <<>>]]

\* JSON.stringify of users with their posts: the text as a sequence of
\* tokens, an object's keys in insertion order (the user's fields, then
\* posts)
RECURSIVE StringifyUsers(_)
StringifyUsers(withPosts) ==
    IF withPosts = <<>>
    THEN <<>>
    ELSE <<"{", "id", Head(withPosts).user, "posts", "[">>
         \o Head(withPosts).posts \o <<"]", "}">>
         \o StringifyUsers(Tail(withPosts))

DbInit ==
    [pc |-> "idle", caller |-> "none", method |-> "none", userIds |-> <<>>,
     users |-> <<>>, i |-> 0, withPosts |-> <<>>, n1Result |-> <<>>,
     due |-> 0, dataMatches |-> "unknown",
     \* the queries issued: calls of a method that awaits simulateLatency
     queries |-> 0]

\* GET /api/users-with-posts/n1 or /optimized: the method is called and
\* issues its first query, getUsers(userIds).
UsersWithPosts(method, userIds) ==
    /\ db.pc = "idle"
    /\ db' = [db EXCEPT !.pc = "getUsers", !.caller = "/api/users-with-posts",
                        !.method = method, !.userIds = userIds,
                        !.queries = 1]
    /\ UNCHANGED <<config, limitedVars, clock, reply, unstable, retry, race, cache, user>>

\* getUsers returns. getUsersWithPostsN1 starts its loop over the users
\* found; getUsersWithPostsOptimized issues getPostsByUserIds(userIds).
GetUsersReturns ==
    LET users == FoundUsers(db.userIds)
    IN /\ db.pc = "getUsers"
       /\ db' = IF db.method = "optimized"
                THEN [db EXCEPT !.pc = "getPostsByUserIds", !.users = users,
                                !.queries = @ + 1]
                ELSE IF users = <<>>
                THEN [db EXCEPT !.pc = "returned", !.users = users]
                ELSE [db EXCEPT !.pc = "getPostsByUserId", !.users = users,
                                !.i = 1, !.queries = @ + 1]
       /\ UNCHANGED <<config, limitedVars, clock, reply, unstable, retry, race, cache, user>>

\* getPostsByUserId(user.id) returns: push, and the next user if any.
GetPostsByUserIdReturns ==
    /\ db.pc = "getPostsByUserId"
    /\ LET found == db.users[db.i]
           pushed == Append(db.withPosts,
                            [user |-> found, posts |-> GetPostsByUserId(found)])
       IN db' = IF db.i < Len(db.users)
                THEN [db EXCEPT !.i = @ + 1, !.withPosts = pushed,
                                !.queries = @ + 1]
                ELSE [db EXCEPT !.pc = "returned", !.withPosts = pushed]
    /\ UNCHANGED <<config, limitedVars, clock, reply, unstable, retry, race, cache, user>>

\* getPostsByUserIds(userIds) returns: users.map(...)
GetPostsByUserIdsReturns ==
    /\ db.pc = "getPostsByUserIds"
    /\ db' = [db EXCEPT !.pc = "returned",
                        !.withPosts =
                            Combine(db.users, GetPostsByUserIds(db.userIds))]
    /\ UNCHANGED <<config, limitedVars, clock, reply, unstable, retry, race, cache, user>>

\* The route answers with the query count it computes from the request
\* (it calls the method through queryService, which passes the call on).
UsersWithPostsReply(method, userIds, withPosts) ==
    [route |-> "/api/users-with-posts/" \o method, status |-> 200,
     body |-> [userCount |-> Len(userIds),
               queryCount |-> IF method = "n1" THEN 1 + Len(userIds) ELSE 2,
               users |-> withPosts]]

UsersWithPostsAnswer ==
    /\ db.pc = "returned"
    /\ db.caller = "/api/users-with-posts"
    /\ reply' = UsersWithPostsReply(db.method, db.userIds, db.withPosts)
    /\ db' = [db EXCEPT !.pc = "answered"]
    /\ UNCHANGED <<config, limitedVars, clock, unstable, retry, race, cache, user>>

\* The delay between the two measurements of a comparison, in milliseconds
ComparisonDelay == 500

\* GET /api/query-comparison or queryService.comparePerformance(userIds):
\* getUsersWithPostsN1(userIds) is called first.
Compare(caller, userIds) ==
    /\ db.pc = "idle"
    /\ db' = [db EXCEPT !.pc = "getUsers", !.caller = caller, !.method = "n1",
                        !.userIds = userIds, !.queries = 1]
    /\ UNCHANGED <<config, limitedVars, clock, reply, unstable, retry, race, cache, user>>

\* getUsersWithPostsN1 has returned: its result is kept and the delay starts.
CompareDelay ==
    /\ db.pc = "returned"
    /\ db.caller \in {"/api/query-comparison", "comparePerformance"}
    /\ db.method = "n1"
    /\ db' = [db EXCEPT !.pc = "delay", !.n1Result = db.withPosts,
                        !.due = clock + ComparisonDelay]
    /\ UNCHANGED <<config, limitedVars, clock, reply, unstable, retry, race, cache, user>>

\* The delay is over: getUsersWithPostsOptimized(userIds) is called.
CompareOptimized ==
    /\ db.pc = "delay"
    /\ clock' = db.due
    /\ db' = [db EXCEPT !.pc = "getUsers", !.method = "optimized",
                        !.users = <<>>, !.i = 0, !.withPosts = <<>>,
                        !.queries = 1]
    /\ UNCHANGED <<config, limitedVars, reply, unstable, retry, race, cache, user>>

\* JSON.stringify(n1Results) === JSON.stringify(optimizedResults)
DataMatches(n1Results, optimizedResults) ==
    StringifyUsers(n1Results) = StringifyUsers(optimizedResults)

QueryComparisonReply(userIds, dataConsistency) ==
    [route |-> "/api/query-comparison", status |-> 200,
     body |-> [userCount |-> Len(userIds),
               dataConsistency |-> dataConsistency]]

\* getUsersWithPostsOptimized has returned: the two results are compared,
\* and the route answers.
CompareAnswer ==
    LET dataMatches == DataMatches(db.n1Result, db.withPosts)
    IN /\ db.pc = "returned"
       /\ db.caller \in {"/api/query-comparison", "comparePerformance"}
       /\ db.method = "optimized"
       /\ db' = [db EXCEPT !.pc = "answered", !.dataMatches = dataMatches]
       /\ reply' = IF db.caller = "/api/query-comparison"
                   THEN QueryComparisonReply(db.userIds, dataMatches)
                   ELSE reply
       /\ UNCHANGED <<config, limitedVars, clock, unstable, retry, race, cache, user>>

-----------------------------------------------------------------------------
(* UserService (userService.ts): the cache in front of the database *)

\* The ids the callers name, and the user the database holds for an id
UserIds == {"user123", "nobody"}
NameOf(userId) == IF userId = "user123" THEN "John Doe" ELSE "Jane Smith"

\* `user:profile:${userId}`
GetCacheKey(userId) == "user:profile:" \o userId

\* set(key, value, ttlSeconds = 300)
DefaultTtl == 300

\* simulateLatency: between 50 and 149 milliseconds
DbLatencies == {50, 149}

NoUserCall ==
    [pc |-> "idle", method |-> "none", userId |-> "", due |-> 0,
     \* the invalidations of userId completed when the call started
     seen |-> 0]

UserInit ==
    [calls |-> [p \in Procs |-> NoUserCall], count |-> 0,
     outcome |-> [userId |-> "", from |-> "none", value |-> Null],
     \* per id: the invalidations completed, and how many of them the call
     \* that wrote the id's entry last had seen when it started
     invalidations |-> [u \in UserIds |-> 0],
     written |-> [u \in UserIds |-> 0]]

\* getUserProfile(userId) up to its first await: cacheService.get(cacheKey)
GetUserProfile(p, userId) ==
    /\ user.calls[p].pc = "idle"
    /\ user.count < MaxUserCalls
    /\ CacheCalled(clock, p, "get", GetCacheKey(userId), "", 0)
    /\ user' = [user EXCEPT
                   !.calls[p] = [pc |-> "get", method |-> "getUserProfile",
                                 userId |-> userId, due |-> 0,
                                 seen |-> user.invalidations[userId]],
                   !.count = @ + 1]
    /\ UNCHANGED <<config, limitedVars, clock, reply, unstable, retry, race, db>>

\* cacheService.get resolves: a hit is returned; on a miss getUserFromDB is
\* called, which answers after latency.
UserGetReturns(p, latency) ==
    LET call == user.calls[p]
    IN /\ call.pc = "get"
       /\ CacheReturned(p)
       /\ user' = IF cache'.result # Null
                  THEN [user EXCEPT
                           !.calls[p] = NoUserCall,
                           !.outcome = [userId |-> call.userId,
                                        from |-> "cache",
                                        value |-> cache'.result]]
                  ELSE [user EXCEPT
                           !.calls[p].pc = "db",
                           !.calls[p].due = clock' + latency]
       /\ UNCHANGED <<config, limitedVars, reply, unstable, retry, race, db>>

\* getUserFromDB resolves with the user, and cacheService.set(cacheKey, user)
\* is called; or it throws for an id the database does not hold, and
\* getUserProfile rejects.
UserDbReturns(p) ==
    LET call == user.calls[p]
    IN /\ call.pc = "db"
       /\ \A due \in CacheDues : call.due <= due
       /\ clock' = call.due
       /\ IF call.userId \in SeededUsers
          THEN /\ CacheCalled(clock', p, "set", GetCacheKey(call.userId),
                              NameOf(call.userId), DefaultTtl)
               /\ user' = [user EXCEPT !.calls[p].pc = "set"]
          ELSE /\ user' = [user EXCEPT
                              !.calls[p] = NoUserCall,
                              !.outcome = [userId |-> call.userId,
                                           from |-> "error",
                                           value |-> "not found"]]
               /\ UNCHANGED cache
       /\ UNCHANGED <<config, limitedVars, reply, unstable, retry, race, db>>

\* cacheService.set resolves: getUserProfile returns the user.
UserSetReturns(p) ==
    LET call == user.calls[p]
    IN /\ call.pc = "set"
       /\ CacheReturned(p)
       /\ user' = [user EXCEPT
                      !.calls[p] = NoUserCall,
                      !.outcome = [userId |-> call.userId, from |-> "db",
                                   value |-> NameOf(call.userId)],
                      !.written[call.userId] = call.seen]
       /\ UNCHANGED <<config, limitedVars, reply, unstable, retry, race, db>>

\* invalidateUser(userId) up to its await: cacheService.del(cacheKey)
InvalidateUser(p, userId) ==
    /\ user.calls[p].pc = "idle"
    /\ user.count < MaxUserCalls
    /\ CacheCalled(clock, p, "del", GetCacheKey(userId), "", 0)
    /\ user' = [user EXCEPT
                   !.calls[p] = [pc |-> "del", method |-> "invalidateUser",
                                 userId |-> userId, due |-> 0,
                                 seen |-> user.invalidations[userId]],
                   !.count = @ + 1]
    /\ UNCHANGED <<config, limitedVars, clock, reply, unstable, retry, race, db>>

\* cacheService.del resolves: invalidateUser has completed.
UserDelReturns(p) ==
    LET call == user.calls[p]
    IN /\ call.pc = "del"
       /\ CacheReturned(p)
       /\ user' = [user EXCEPT
                      !.calls[p] = NoUserCall,
                      !.invalidations[call.userId] = @ + 1]
       /\ UNCHANGED <<config, limitedVars, reply, unstable, retry, race, db>>

-----------------------------------------------------------------------------
(* Specifications *)

Limiters == {"token-bucket", "sliding-window", "sliding-window-mock"}

\* The routes behind a rate limiter (server.ts), and the others
Limited == "limited"
Cached == "/api/user/:id"
WithPosts == "/api/users-with-posts"
Comparison == "/api/query-comparison"
Routes ==
    {Limited, "/unstable", "/retry-demo", "/timeout-demo", Cached, WithPosts,
     Comparison}

Init ==
    /\ route \in Routes
    /\ limiter \in (IF route = Limited THEN Limiters ELSE {"none"})
    /\ clock = 0
    /\ reply = NoReply
    /\ unstable = UnstableInit
    /\ retry = RetryInit
    /\ race = RaceInit
    /\ cache = CacheInit
    /\ db = DbInit
    /\ user = UserInit
    /\ redisUrl \in (IF limiter = "sliding-window" THEN BOOLEAN ELSE {TRUE})
    /\ now = 0
    /\ buckets = [k \in {} |-> 0]
    /\ windowRequests = [k \in {} |-> <<>>]
    /\ redis = FALSE
    /\ store = [k \in {} |-> 0]
    /\ fw = [p \in Procs |-> Idle]
    /\ res = NoResponse
    /\ tbLog = <<>>
    /\ slLog = <<>>
    /\ fwExpired = "none"
    /\ obs = NotObserving

\* Requests of every identity to the token bucket.
TBRequest == \E ip \in Ips : TokenBucketLimiter(ip) /\ UNCHANGED tbLog
TBTick == Tick /\ UNCHANGED tbLog
NextTB == TBRequest \/ TBTick
InitTB == Init /\ limiter = "token-bucket"
SpecTB == InitTB /\ [][NextTB]_vars

\* One client's requests to the token bucket, logged.
TBClientRequest ==
    /\ Len(tbLog) < MaxLog
    /\ TokenBucketLimiter("10.0.0.1")
    /\ TBObserve("10.0.0.1")
NextTBClient == TBClientRequest \/ TBTick
SpecTBClient == InitTB /\ [][NextTBClient]_vars

\* One client's requests to the sliding log.
SLRequest == MockSlidingWindowLimiter("10.0.0.1") /\ UNCHANGED slLog
NextSL == SLRequest \/ SLElapse
InitSL == Init /\ limiter = "sliding-window-mock"
SpecSL == InitSL /\ [][NextSL]_vars

\* One client's requests to the sliding log, its admissions recorded.
SLClientRequest ==
    /\ MockSlidingWindowLimiter("10.0.0.1")
    /\ SLObserveAdmissions("10.0.0.1")
NextSLClient == SLClientRequest \/ SLElapse
SpecSLClient == InitSL /\ [][NextSLClient]_vars

\* The algorithm of mockSlidingWindowLimiter run with a window of 10 seconds
\* and a limit of 3 requests, one client's requests logged.
Example == [windowSeconds |-> 10, maxRequests |-> 3]
SLExampleRequest ==
    /\ Len(slLog) < MaxExampleLog
    /\ MockSlidingWindowLimiterWith("10.0.0.1", Example.windowSeconds,
                                    Example.maxRequests)
    /\ SLObserve("10.0.0.1")
NextSLExample == SLExampleRequest \/ SLSecond
SpecSLExample == InitSL /\ [][NextSLExample]_vars

\* Requests of every identity to the token bucket, or to the sliding log
\* with the window and the limit of the example, time passing in steps
\* longer than that window.
SLEveryone ==
    /\ \E ip \in Ips :
          MockSlidingWindowLimiterWith(ip, Example.windowSeconds,
                                       Example.maxRequests)
    /\ UNCHANGED slLog
NextEveryone ==
    \/ limiter = "token-bucket" /\ NextTB
    \/ limiter = "sliding-window-mock" /\ (SLEveryone \/ SLElapse)
InitEveryone == Init /\ limiter \in {"token-bucket", "sliding-window-mock"}
SpecEveryone == InitEveryone /\ [][NextEveryone]_vars

\* One client's requests to the fixed-window limiter, up to MaxInFlight at a
\* time, with a store that answers every command.
FWRequest == \E p \in Procs : FWStart(p, "10.0.0.1")
FWIncr == \E p \in Procs : FWIncrReply(p)
FWExpire == \E p \in Procs : FWExpireReply(p)
NextFWReliable == FWRequest \/ FWIncr \/ FWExpire \/ FWElapse
InitFWReliable == Init /\ limiter = "sliding-window" /\ redisUrl = TRUE
SpecFWReliable == InitFWReliable /\ [][NextFWReliable]_vars

\* The same with a store whose commands may fail, and with or without
\* REDIS_URL.
FWIncrFails == \E p \in Procs, applied \in BOOLEAN : FWIncrFail(p, applied)
FWExpireFails == \E p \in Procs, applied \in BOOLEAN : FWExpireFail(p, applied)
NextFW == NextFWReliable \/ FWIncrFails \/ FWExpireFails
InitFW == Init /\ limiter = "sliding-window"
SpecFW == InitFW /\ [][NextFW]_vars

\* One client that sends its requests one after the other, a store that
\* answers every command, and the observer.
FWSerial ==
    \/ FWStart(1, "10.0.0.1")
    \/ FWIncrReply(1)
    \/ FWExpireReply(1)
NextFWObserved == FWSerial \/ FWElapse \/ StartObserving
SpecFWObserved == InitFWReliable /\ [][NextFWObserved]_vars

\* The requests of one run go through one of the three limiters.
NextLimiters ==
    \/ limiter = "token-bucket" /\ NextTB
    \/ limiter = "sliding-window-mock" /\ NextSL
    \/ limiter = "sliding-window" /\ NextFW
SpecLimiters == Init /\ [][NextLimiters]_vars

\* Requests to GET /unstable, up to MaxInFlight at a time.
UnstableRequest == \E p \in Procs : UnstableStart(p)
UnstableFired ==
    \E p \in Procs, outcome \in FireOutcomes : UnstableSettle(p, outcome)
\* GET /health (balancedServer.ts) is answered in the turn it arrives in,
\* at time t: now, or later while the only pending event is the timer of
\* retryWithBackoff, which fires at retry.due. The timestamp is kept in
\* milliseconds.
HealthReply(t) ==
    [route |-> "/health", status |-> 200,
     body |-> [status |-> "healthy", timestamp |-> t]]

Health(t) ==
    /\ t >= clock
    /\ t > clock => (retry.pc = "timer" /\ t < retry.due)
    /\ clock' = t
    /\ reply' = HealthReply(t)
    /\ UNCHANGED <<config, limitedVars, unstable, retry, race, cache, db, user>>

UnstableAnswered == \E p \in Procs : UnstableAnswer(p)
NextUnstable == UnstableRequest \/ UnstableFired \/ UnstableAnswered
InitUnstable == Init /\ route = "/unstable"
SpecUnstable == InitUnstable /\ [][NextUnstable]_vars

\* One call of retryWithBackoff, by GET /retry-demo or by another caller
\* with arguments of its choice, on an operation that may fail or succeed at
\* each attempt.
RetryDemoRequest ==
    RetryWithBackoff("/retry-demo", RetryDemo.maxRetries, RetryDemo.baseDelay)
RetryCall ==
    \E maxRetries \in 0..MaxRetries, baseDelay \in BaseDelays :
        RetryWithBackoff("caller", maxRetries, baseDelay)
RetryAttemptSucceeds ==
    \E value \in Values, d \in Latencies : RetryResolves(value, d)
RetryAttemptFails ==
    \E error \in Errors, d \in Latencies : RetryRejects(error, d)
NextRetry ==
    \/ RetryDemoRequest
    \/ RetryCall
    \/ RetryAttemptSucceeds
    \/ RetryAttemptFails
    \/ RetryTimer
    \/ RetryDemoAnswer
InitRetry == Init /\ route = "/retry-demo"
SpecRetry == InitRetry /\ [][NextRetry]_vars

\* GET /retry-demo next to requests of GET /health in the same process,
\* which arrive now or a quarter of a second from now. Every invocation of
\* the operation settles and every timer fires; the other requests are
\* under no obligation.
Arrivals == {0, 250}
HealthRequest == \E gap \in Arrivals : Health(clock + gap)
NextRetryServing ==
    \/ RetryDemoRequest
    \/ RetryCall
    \/ RetryAttemptSucceeds
    \/ RetryAttemptFails
    \/ RetryTimer
    \/ RetryDemoAnswer
    \/ HealthRequest
SpecRetryServing ==
    /\ InitRetry
    /\ [][NextRetryServing]_vars
    /\ WF_vars(RetryAttemptSucceeds \/ RetryAttemptFails)
    /\ WF_vars(RetryTimer)

\* Calls of withTimeout, up to MaxInFlight at a time: by GET /timeout-demo,
\* whose operation resolves, or by another caller with a timeout of its
\* choice and an operation that may also reject.
TimeoutDemoRequest ==
    \E p \in Procs, d \in Durations :
        WithTimeout(p, "/timeout-demo", TimeoutDemo.timeoutMs, d)
TimeoutCall ==
    \E p \in Procs, timeoutMs \in Timeouts, d \in Durations :
        WithTimeout(p, "caller", timeoutMs, d)
RaceOperationResolves == \E p \in Procs : RaceOperationSettles(p, Completed)
RaceOperationRejects ==
    \E p \in Procs :
        race[p].caller = "caller" /\ RaceOperationSettles(p, Thrown)
RaceTimer == \E p \in Procs : RaceTimerFires(p)
TimeoutDemoAnswered == \E p \in Procs : TimeoutDemoAnswer(p)
NextRace ==
    \/ TimeoutDemoRequest
    \/ TimeoutCall
    \/ RaceOperationResolves
    \/ RaceOperationRejects
    \/ RaceTimer
    \/ TimeoutDemoAnswered
InitRace == Init /\ route = "/timeout-demo"
SpecRace == InitRace /\ [][NextRace]_vars

\* Calls of get, set and del on one key, up to MaxInFlight at a time.
CacheGet == \E p \in Procs, key \in CacheKeys : CacheCall(p, "get", key, "", 0)
CacheSet ==
    \E p \in Procs, key \in CacheKeys, value \in CacheValues, ttl \in Ttls :
        CacheCall(p, "set", key, value, ttl)
CacheDel == \E p \in Procs, key \in CacheKeys : CacheCall(p, "del", key, "", 0)
CacheReturns == \E p \in Procs : CacheReturn(p)
CacheExpires == \E timer \in cache.timers : CacheExpire(timer)
NextCache ==
    CacheGet \/ CacheSet \/ CacheDel \/ CacheReturns \/ CacheExpires
InitCache == Init /\ route = Cached
SpecCache == InitCache /\ [][NextCache]_vars

\* The lists of 1 to n ids a request may name (''.split(',') has one
\* element)
RECURSIVE IdLists(_)
IdLists(n) ==
    IF n = 0
    THEN {<<>>}
    ELSE LET shorter == IdLists(n - 1)
         IN shorter \cup {Append(ids, id) : ids \in shorter, id \in RequestedIds}

\* One request for users with their posts, by either method.
UsersWithPostsN1 ==
    \E userIds \in IdLists(MaxIds) \ {<<>>} : UsersWithPosts("n1", userIds)
UsersWithPostsOptimized ==
    \E userIds \in IdLists(MaxIds) \ {<<>>} :
        UsersWithPosts("optimized", userIds)
NextDb ==
    \/ UsersWithPostsN1
    \/ UsersWithPostsOptimized
    \/ GetUsersReturns
    \/ GetPostsByUserIdReturns
    \/ GetPostsByUserIdsReturns
    \/ UsersWithPostsAnswer
InitDb == Init /\ route = WithPosts
SpecDb == InitDb /\ [][NextDb]_vars

\* Comparisons of the two methods: by the route, whose list of ids has at
\* least one element, or by a direct call of comparePerformance with any
\* list.
QueryComparisonRequest ==
    \E userIds \in IdLists(MaxIds) \ {<<>>} :
        Compare("/api/query-comparison", userIds)
ComparePerformance ==
    \E userIds \in IdLists(MaxIds) : Compare("comparePerformance", userIds)
NextCompare ==
    \/ QueryComparisonRequest
    \/ ComparePerformance
    \/ GetUsersReturns
    \/ GetPostsByUserIdReturns
    \/ CompareDelay
    \/ CompareOptimized
    \/ GetPostsByUserIdsReturns
    \/ CompareAnswer
InitCompare == Init /\ route = Comparison
SpecCompare == InitCompare /\ [][NextCompare]_vars

\* Calls of getUserProfile and invalidateUser, up to MaxInFlight at a time.
UserProfileRequest == \E p \in Procs, userId \in UserIds : GetUserProfile(p, userId)
UserCacheAnswers ==
    \E p \in Procs, latency \in DbLatencies : UserGetReturns(p, latency)
UserDbAnswers == \E p \in Procs : UserDbReturns(p)
UserCached == \E p \in Procs : UserSetReturns(p)
UserInvalidation == \E p \in Procs, userId \in UserIds : InvalidateUser(p, userId)
UserInvalidated == \E p \in Procs : UserDelReturns(p)
NextUser ==
    \/ UserProfileRequest
    \/ UserCacheAnswers
    \/ UserDbAnswers
    \/ UserCached
    \/ UserInvalidation
    \/ UserInvalidated
    \/ CacheExpires
InitUser == Init /\ route = Cached
SpecUser == InitUser /\ [][NextUser]_vars

Next == NextLimiters
Spec == Init /\ [][Next]_vars

-----------------------------------------------------------------------------
(* Token bucket: properties *)

Capacity == Tokens(BUCKET_CAPACITY)
Cost == Tokens(REQUEST_COST)

\* C1: every stored bucket holds between 0 and capacity tokens, after any
\* sequence of calls for any identities at non-decreasing clock readings.
C1_TokensWithinCapacity ==
    \A k \in DOMAIN buckets :
        0 <= buckets[k].tokens /\ buckets[k].tokens <= Capacity

\* A bucket that was drained, then refilled by a fraction of a token, beside a
\* bucket that was left alone long enough to be full again before its last
\* request.
C1_Witness ==
    \E k1, k2 \in DOMAIN buckets :
        /\ buckets[k1].tokens > 0 /\ buckets[k1].tokens < Cost
        /\ buckets[k2].tokens = Capacity - Cost
        /\ buckets[k2].lastRefill = MaxTime
        /\ res.key = k2 /\ res.nextCalls = 1

\* The number of logged requests sent at the instant of the first one.
AtFirstInstant == Cardinality({i \in 1..Len(tbLog) : tbLog[i].t = tbLog[1].t})

\* C2: for a fresh identity exactly the first 10 requests of one instant are
\* allowed and the 11th (and any later one of that instant) is denied; when
\* the next requests come exactly 1 second later, exactly the first of them is
\* allowed and the one after it is denied.
C2_TenThenOnePerSecond ==
    LET burst == BUCKET_CAPACITY \div REQUEST_COST
    IN \A i \in 1..Len(tbLog) :
        /\ tbLog[i].t = tbLog[1].t => (tbLog[i].allowed <=> i <= burst)
        /\ ( /\ AtFirstInstant >= burst + 1
             /\ tbLog[i].t = tbLog[1].t + TicksPerSecond
             /\ \A j \in 1..i : tbLog[j].t \in {tbLog[1].t, tbLog[i].t} )
           => (tbLog[i].allowed <=> i = AtFirstInstant + 1)

\* Eleven requests at one instant, two more one second later.
C2_Witness ==
    /\ Len(tbLog) = 13
    /\ AtFirstInstant = 11
    /\ tbLog[12].t = tbLog[1].t + TicksPerSecond
    /\ tbLog[13].t = tbLog[12].t
    /\ tbLog[12].allowed /\ ~tbLog[13].allowed

Admitted(i, j) == Cardinality({m \in i..j : tbLog[m].allowed})

\* C3: the checks i..j of one instant against a bucket that holds at least
\* j-i+1 tokens at check i are all allowed, and over any stretch i..j of
\* checks the admitted ones never exceed the tokens held at check i plus the
\* tokens refilled between check i and check j. (Stated of the stretches that
\* end at the latest check j: every stretch is one of these when its last
\* check is made.)
C3_NoOverAdmission ==
    LET j == Len(tbLog)
    IN \A i \in 1..j :
        /\ ( /\ tbLog[j].t = tbLog[i].t
             /\ tbLog[i].tokens >= (j - i + 1) * Cost )
           => \A m \in i..j : tbLog[m].allowed
        /\ Admitted(i, j) * Cost
              <= tbLog[i].tokens + (tbLog[j].t - tbLog[i].t) * REFILL_RATE

\* Ten simultaneous checks against the full bucket, all allowed, and a later
\* stretch that used up exactly what was refilled.
C3_Witness ==
    /\ Len(tbLog) >= 12
    /\ tbLog[10].t = tbLog[1].t
    /\ Admitted(1, 10) = 10
    /\ ~tbLog[11].allowed
    /\ tbLog[Len(tbLog)].t > tbLog[1].t
    /\ Admitted(1, Len(tbLog)) * Cost
          = tbLog[1].tokens + (tbLog[Len(tbLog)].t - tbLog[1].t) * REFILL_RATE

\* C34: over any interval of time the requests of one identity that the
\* token bucket admits never exceed BUCKET_CAPACITY plus the interval's
\* length times REFILL_RATE (10 + T), whatever was allowed or denied before
\* and during the interval. (Stated of the intervals from a check i to the
\* latest check j; every interval's admissions are those of such a stretch
\* when its last check is made.)
C34_RateBound ==
    LET j == Len(tbLog)
    IN \A i \in 1..j :
          Tokens(Admitted(i, j))
             <= Capacity + (tbLog[j].t - tbLog[i].t) * REFILL_RATE

\* Eleven requests admitted within one second, the most the bound allows,
\* with a denied request among them.
C34_Witness ==
    /\ Len(tbLog) >= 12
    /\ tbLog[Len(tbLog)].t - tbLog[1].t = TicksPerSecond
    /\ Admitted(1, Len(tbLog)) = BUCKET_CAPACITY + 1
    /\ \E m \in 1..Len(tbLog) : ~tbLog[m].allowed

\* C4 as claimed: a denied call leaves the identity's bucket (tokens and
\* lastRefill) exactly as it was.
C4_DenialIsNoOp ==
    [][\A ip \in Ips :
          (TokenBucketLimiter(ip) /\ res'.status = 429) => buckets' = buckets]_vars

\* C4 as amended: a denied call takes no token. It leaves the bucket with the
\* time-based refill applied and nothing else (tokens = min(capacity, tokens +
\* elapsed * rate), lastRefill = now), so the bucket is unchanged exactly when
\* no time has passed since lastRefill; the other buckets are untouched.
C4_DenialOnlyRefills ==
    [][\A ip \in Ips :
          (TokenBucketLimiter(ip) /\ res'.status = 429) =>
              LET k == KeyOf(ip)
              IN /\ k \in DOMAIN buckets
                 /\ DOMAIN buckets' = DOMAIN buckets
                 /\ buckets'[k].tokens =
                        Min(Capacity, buckets[k].tokens
                                + (now - buckets[k].lastRefill) * REFILL_RATE)
                 /\ buckets'[k].lastRefill = now
                 /\ (buckets'[k] = buckets[k] <=> now = buckets[k].lastRefill)
                 /\ \A o \in DOMAIN buckets \ {k} : buckets'[o] = buckets[o]]_vars

\* A denied call that found part of a token refilled and moved lastRefill.
C4_Witness ==
    /\ res.limiter = "token-bucket" /\ res.status = 429
    /\ buckets[res.key].lastRefill = now
    /\ buckets[res.key].tokens > 0
    /\ now > 0

-----------------------------------------------------------------------------
(* The three limiters: outcome of a request *)

Header(r, name) == IF name \in DOMAIN r.headers THEN r.headers[name] ELSE "(unset)"

RetryAfterOf(name) ==
    IF name = "token-bucket" THEN "1" ELSE String(WINDOW_SIZE_IN_SECONDS)

\* C5: a request to any of the three limiters ends either with next() called
\* exactly once and no 429, or with a 429 that carries Retry-After (1 for the
\* token bucket, 60 for the window limiters) and an algorithm field, next()
\* never called and the route handler not run.
C5_NextOrStructuredDenial ==
    res.limiter # "none" =>
        \/ /\ res.nextCalls = 1
           /\ res.status # 429
           /\ HandlerRuns(res) = 1
        \/ /\ res.status = 429
           /\ Header(res, "Retry-After") = RetryAfterOf(res.limiter)
           /\ "algorithm" \in DOMAIN res.body
           /\ res.nextCalls = 0
           /\ HandlerRuns(res) = 0

\* The sliding log denies its client.
C5_Witness ==
    /\ res.limiter = "sliding-window-mock"
    /\ res.status = 429
    /\ Len(windowRequests[res.key]) = MAX_REQUESTS

-----------------------------------------------------------------------------
(* Fixed-window counter: properties *)

TtlOf(st, key) == IF key \in DOMAIN st THEN st[key].ttl ELSE NoExpiry

\* C6: with a store that answers, the value INCR returns is the counter after
\* an atomic increment, the request is allowed iff that value is <=
\* MAX_REQUESTS, and the TTL of the counter is set, to 60, exactly by the
\* requests the value 1 was returned to.
C6_AllowedIffWithinLimit ==
    [][\A p \in Procs :
          LET key == RateKey(fw[p].ip)
          IN /\ FWIncrReply(p) =>
                  /\ store'[key].count = CountOf(key) + 1
                  /\ (fw'[p].pc = "expire") <=> (store'[key].count = 1)
                  /\ TtlOf(store', key) = TtlOf(store, key)
                  /\ fw'[p].pc = "idle" =>
                        /\ res'.current = store'[key].count
                        /\ (res'.nextCalls = 1) <=> (res'.current <= MAX_REQUESTS)
                        /\ (res'.status = 429) <=> (res'.current > MAX_REQUESTS)
             /\ FWExpireReply(p) =>
                  /\ fw[p].current = 1
                  /\ store'[key].ttl = WINDOW_SIZE_IN_SECONDS
                  /\ store'[key].count = store[key].count
                  /\ res'.current = 1 /\ res'.nextCalls = 1 /\ res'.status # 429]_vars

\* A request was denied on the value 101 while the counter has its TTL.
C6_Witness ==
    /\ res.limiter = "sliding-window" /\ res.current = MAX_REQUESTS + 1
    /\ res.status = 429
    /\ TtlOf(store, "rl:" \o res.key) = WINDOW_SIZE_IN_SECONDS

\* C7: the 100th request of a window is allowed, the 101st is denied with
\* Retry-After 60, and the request that finds the counter expired is the first
\* of a new window: it is allowed and reports remaining = 99.
C7_HundredthAllowedThenReset ==
    res.limiter = "sliding-window" =>
        /\ res.current = 100 => res.nextCalls = 1 /\ res.status # 429
        /\ res.current = 101 =>
              /\ res.status = 429 /\ res.nextCalls = 0
              /\ Header(res, "Retry-After") = "60"
        /\ res.current = 1 =>
              /\ res.nextCalls = 1 /\ res.status # 429
              /\ Header(res, "X-RateLimit-Remaining") = "99"
        /\ \A p \in Procs :
              (fw[p].pc = "incr" /\ RateKey(fw[p].ip) \notin DOMAIN store)
                 => ENABLED (FWIncrReply(p) /\ fw'[p].current = 1)

\* A counter that had passed 100 has expired, and the next request was the
\* first of a new window.
C7_Witness ==
    /\ fwExpired = "exceeded"
    /\ res.limiter = "sliding-window" /\ res.current = 1
    /\ Header(res, "X-RateLimit-Remaining") = "99"

\* The checks that hold the value 1 of key and have not had the reply to
\* their EXPIRE
SettingExpiry(key) ==
    {p \in Procs : fw[p].pc = "expire" /\ RateKey(fw[p].ip) = key}

\* C35: with a store that answers every command and checks of one identity
\* interleaved at their awaits in any way, a counter admits at most
\* MAX_REQUESTS requests from its creation to its expiry, exactly one check
\* of that time is given the value 1, and that check alone sets the expiry,
\* once; a counter expires only with all of this done.
C35_OneWindowOneExpiry ==
    /\ [](\A k \in DOMAIN store :
            /\ store[k].admitted <= Min(store[k].count, MAX_REQUESTS)
            /\ store[k].firsts = 1
            /\ store[k].expiries = (IF store[k].ttl = NoExpiry THEN 0 ELSE 1)
            /\ Cardinality(SettingExpiry(k)) = 1 - store[k].expiries
            /\ \A p \in SettingExpiry(k) : fw[p].current = 1)
    /\ [][\A k \in Expiring :
             k \notin DOMAIN store' =>
                 /\ store[k].admitted <= MAX_REQUESTS
                 /\ store[k].firsts = 1
                 /\ store[k].expiries = 1]_vars

\* The check that was given the value 1 is still waiting for the reply to
\* its EXPIRE while the checks of another caller have taken the counter
\* past the limit: 99 admitted, one denied.
C35_Witness ==
    \E p \in Procs :
        /\ fw[p].pc = "expire"
        /\ store[RateKey(fw[p].ip)].count = MAX_REQUESTS + 1
        /\ store[RateKey(fw[p].ip)].admitted = MAX_REQUESTS - 1
        /\ res.status = 429

\* C36: the window of the fixed-window limiter starts with its first request
\* and is never extended. A check given a value greater than 1, allowed or
\* denied, leaves the counter's TTL as it is; no step raises a TTL that is
\* set; time alone runs it down, by the time that passed, until the key
\* expires; and the first check after the expiry is given the value 1, which
\* is allowed. So a client that keeps sending while denied is admitted
\* again WINDOW_SIZE_IN_SECONDS after the window's first request at the
\* latest.
C36_WindowAnchored ==
    [][/\ \A p \in Procs :
             LET key == RateKey(fw[p].ip)
             IN /\ FWIncrReply(p) =>
                     IF key \in DOMAIN store
                     THEN /\ store'[key].count > 1
                          /\ store'[key].ttl = store[key].ttl
                          /\ fw'[p].pc = "idle"
                     ELSE fw'[p].current = 1 /\ fw'[p].pc = "expire"
                /\ FWExpireReply(p) =>
                     /\ fw[p].current = 1
                     /\ store[key].ttl = NoExpiry
                     /\ res'.current = 1 /\ res'.nextCalls = 1
       /\ \A k \in DOMAIN store :
             store[k].ttl # NoExpiry =>
                 IF k \in DOMAIN store'
                 THEN \/ store'[k].ttl = store[k].ttl
                      \/ /\ FWElapse
                         /\ store'[k].ttl = store[k].ttl - StepSeconds
                         /\ store'[k].ttl > 0
                 ELSE FWElapse /\ store[k].ttl <= StepSeconds]_vars

\* A window in which the client was denied has ended, and the client's
\* next request has started a new one.
C36_Witness ==
    /\ fwExpired = "exceeded"
    /\ res.limiter = "sliding-window" /\ res.current = 1 /\ res.nextCalls = 1
    /\ RateKey(res.key) \in DOMAIN store
    /\ store[RateKey(res.key)].ttl = WINDOW_SIZE_IN_SECONDS
    /\ store[RateKey(res.key)].count = 1

\* C8: when a store operation of an admission check fails (the client's
\* initialisation, the INCR or the EXPIRE), the call does not reject, no 429
\* is sent and next() is called.
C8_FailsOpen ==
    (res.limiter = "sliding-window" /\ res.failed # "none") =>
        /\ res.nextCalls = 1
        /\ res.status # 429
        /\ ~res.rejected

\* The EXPIRE of a window's first request failed.
C8_Witness ==
    /\ res.limiter = "sliding-window" /\ res.failed = "expire"
    /\ res.nextCalls = 1

\* C9 as claimed: once the admission checks have run to their end, every
\* counter in the store with count >= 1 has a TTL.
C9_EveryCounterExpires ==
    (\A p \in Procs : fw[p].pc = "idle") =>
        \A k \in DOMAIN store : store[k].count >= 1 => store[k].ttl # NoExpiry

\* C10: over any interval of windowSeconds at most 2 x MAX_REQUESTS requests
\* of one identity are admitted; more than MAX_REQUESTS can be, by a burst
\* on both sides of an expiry (C10_Witness).
C10_BurstAtMostTwiceLimit ==
    obs.count <= 2 * MAX_REQUESTS

\* More than MAX_REQUESTS requests admitted within one interval.
C10_Witness ==
    /\ Observing
    /\ obs.count > MAX_REQUESTS
    /\ fwExpired = "within"

-----------------------------------------------------------------------------
(* Fixed-window counter: the documented rolling window *)

\* C11 as claimed: slidingWindowLimiter admits at most MAX_REQUESTS requests
\* of one identity in any interval of WINDOW_SIZE_IN_SECONDS seconds; here
\* over the half-open interval that starts where the observer started.
C11_AtMostLimitPerWindow ==
    (Observing /\ obs.age < WINDOW_SIZE_IN_SECONDS) =>
        obs.count <= MAX_REQUESTS

-----------------------------------------------------------------------------
(* Sliding log: properties *)

\* The log the map holds for an identity after a step
StoredAfter(key) ==
    IF key \in DOMAIN windowRequests' THEN windowRequests'[key] ELSE <<>>

\* C12: immediately after every admission check of mockSlidingWindowLimiter
\* at clock reading now, allowed or denied, the stored log of the checked
\* identity holds no timestamp t <= now - windowSeconds; and the passing of
\* time alone prunes nothing.
C12_NoStaleEntryAfterCheck ==
    [][/\ \A ip \in Ips :
            MockSlidingWindowLimiter(ip) =>
                \A i \in 1..Len(StoredAfter(KeyOf(ip))) :
                    StoredAfter(KeyOf(ip))[i] > now - WindowTicks
       /\ SLElapse => windowRequests' = windowRequests]_vars

\* A denial a whole window after the identity's first requests, the checks
\* before it having dropped them from the log.
C12_Witness ==
    /\ res.limiter = "sliding-window-mock"
    /\ res.status = 429
    /\ now >= WindowTicks
    /\ "10.0.0.1" \in DOMAIN windowRequests
    /\ Len(windowRequests["10.0.0.1"]) = MAX_REQUESTS
    /\ windowRequests["10.0.0.1"][1] = now - HalfWindow
    /\ windowRequests["10.0.0.1"][MAX_REQUESTS] = now

\* The admissions recorded at a clock reading later than now - windowSeconds
AdmittedInWindow ==
    Cardinality({i \in 1..Len(slLog) : slLog[i].t > now - WindowTicks})

\* C13: for one identity and a non-decreasing clock, the requests
\* mockSlidingWindowLimiter admits in any half-open interval of
\* windowSeconds, here the one that ends at the current clock reading, are
\* never more than MAX_REQUESTS.
C13_AtMostLimitPerRollingWindow ==
    AdmittedInWindow <= MAX_REQUESTS

\* MAX_REQUESTS admissions spread over two clock readings of one window, and
\* the next request denied.
C13_Witness ==
    /\ res.limiter = "sliding-window-mock"
    /\ res.status = 429
    /\ AdmittedInWindow = MAX_REQUESTS
    /\ slLog[1].t < now
    /\ slLog[Len(slLog)].t = now

\* C37: after any sequence of mockSlidingWindowLimiter calls at
\* non-decreasing clock readings, every stored log has at most MAX_REQUESTS
\* entries, in ascending (non-decreasing) order of time, none later than the
\* clock.
C37_LogShape ==
    \A k \in DOMAIN windowRequests :
        LET requests == windowRequests[k]
        IN /\ Len(requests) <= MAX_REQUESTS
           /\ \A i \in 1..Len(requests) :
                 /\ requests[i] <= now
                 /\ i > 1 => requests[i - 1] <= requests[i]

\* A full log written at two clock readings, older entries pruned, and a
\* request denied on it.
C37_Witness ==
    \E k \in DOMAIN windowRequests :
        LET requests == windowRequests[k]
        IN /\ Len(requests) = MAX_REQUESTS
           /\ requests[1] > 0
           /\ requests[1] < requests[Len(requests)]
           /\ res.key = k /\ res.status = 429

\* C14: when mockSlidingWindowLimiter denies a request, the stored log of
\* that identity is the same sequence before and after the call.
C14_DeniedNotRecorded ==
    [][\A ip \in Ips :
          (MockSlidingWindowLimiter(ip) /\ res'.status = 429) =>
              StoredAfter(KeyOf(ip)) = GetRequests(KeyOf(ip))]_vars

\* A denied request, the log holding MAX_REQUESTS timestamps of two
\* different clock readings.
C14_Witness ==
    /\ res.limiter = "sliding-window-mock"
    /\ res.status = 429
    /\ res.nextCalls = 0
    /\ Len(GetRequests(res.key)) = MAX_REQUESTS
    /\ GetRequests(res.key)[1] < GetRequests(res.key)[MAX_REQUESTS]

\* The requests logged before the i-th that were allowed and that the i-th
\* still counts: those made less than windowSeconds before it
Counted(i) ==
    {j \in 1..(i - 1) :
        /\ slLog[j].allowed
        /\ slLog[j].t > slLog[i].t - Example.windowSeconds * TicksPerSecond}

Seconds(n) == n * TicksPerSecond

\* C15: with maxRequests = 3 and windowSeconds = 10, a request is allowed
\* exactly when fewer than 3 allowed requests were made less than 10 seconds
\* before it, so that a request made exactly 10 seconds after an entry no
\* longer counts it; in particular 3 requests at t=0 are allowed, a 4th at
\* t=5 is denied and a 5th at t=11 is allowed.
C15_SlidingLogExample ==
    /\ \A i \in 1..Len(slLog) :
          slLog[i].allowed <=> Cardinality(Counted(i)) < Example.maxRequests
    /\ (/\ Len(slLog) = 5
        /\ [i \in 1..5 |-> slLog[i].t] =
               <<0, 0, 0, Seconds(5), Seconds(11)>>)
       => [i \in 1..5 |-> slLog[i].allowed] = <<TRUE, TRUE, TRUE, FALSE, TRUE>>

\* The example's five requests have been made.
C15_Witness ==
    /\ Len(slLog) = 5
    /\ [i \in 1..5 |-> slLog[i].t] = <<0, 0, 0, Seconds(5), Seconds(11)>>
    /\ res.limiter = "sliding-window-mock"
    /\ res.nextCalls = 1

-----------------------------------------------------------------------------
(* Fault tolerance: properties *)

\* C21 as claimed: GET /unstable answers 503 when fire() was rejected
\* because the breaker is open, answers with a generic server error (500)
\* when the breaker forwarded the call and the operation failed, and no
\* answer to the one equals an answer to the other.
C21_FailureCausesDistinguishable ==
    /\ \A a \in unstable.seen :
          /\ a.cause = "open" => a.status = 503
          /\ a.cause = "failed" => a.status = 500
    /\ \A a, b \in unstable.seen :
          (a.cause = "open" /\ b.cause = "failed") =>
              <<a.status, a.body>> # <<b.status, b.body>>

RetrySettled == retry.pc \in {"settled", "answered"}
RetryFailed == RetrySettled /\ ~retry.outcome.ok
RetrySucceeded == RetrySettled /\ retry.outcome.ok

\* C22: retryWithBackoff invokes the operation at most maxRetries + 1 times;
\* it fails only after maxRetries + 1 invocations have all failed, and it
\* has failed once that many have.
C22_AtMostMaxRetriesPlusOne ==
    /\ retry.calls <= retry.maxRetries + 1
    /\ RetryFailed =>
          /\ retry.calls = retry.maxRetries + 1
          /\ Len(retry.errors) = retry.calls
    /\ (retry.pc # "idle" /\ Len(retry.errors) = retry.maxRetries + 1) =>
          RetryFailed

\* A call with maxRetries = 2 has failed after three invocations.
C22_Witness ==
    /\ RetryFailed
    /\ retry.caller = "caller"
    /\ retry.maxRetries = 2
    /\ retry.calls = 3

\* C23 as claimed: GET /retry-demo, which passes 3 to retryWithBackoff,
\* invokes the operation at most 3 times per request.
C23_AtMostThreeAttempts ==
    retry.caller = "/retry-demo" => retry.calls <= 3

\* C24: when every attempt fails, retryWithBackoff fails with the error the
\* last attempt threw.
C24_FailsWithLastError ==
    RetryFailed => retry.outcome.value = retry.errors[Len(retry.errors)]

\* A failed call whose first and last attempts threw different errors.
C24_Witness ==
    /\ RetryFailed
    /\ Len(retry.errors) >= 2
    /\ retry.errors[1] # retry.errors[Len(retry.errors)]
    /\ retry.outcome.value = retry.errors[Len(retry.errors)]

RECURSIVE SumOf(_)
SumOf(seq) == IF seq = <<>> THEN 0 ELSE Head(seq) + SumOf(Tail(seq))

\* C25: the wait after the failure of attempt k (from 0) is
\* baseDelay x 2^k; no wait precedes the first attempt, one wait lies
\* between two attempts, none follows the last failed attempt, and the waits
\* of a call that failed sum to baseDelay x (2^maxRetries - 1).
C25_BackoffSchedule ==
    /\ \A k \in 1..Len(retry.waits) :
          retry.waits[k] = retry.baseDelay * Pow2(k - 1)
    /\ retry.pc = "operation" => Len(retry.waits) = retry.calls - 1
    /\ retry.pc = "timer" =>
          /\ Len(retry.waits) = retry.calls
          /\ retry.calls <= retry.maxRetries
          /\ retry.due - clock = retry.waits[Len(retry.waits)]
    /\ RetryFailed =>
          /\ Len(retry.waits) = retry.maxRetries
          /\ SumOf(retry.waits) =
                 retry.baseDelay * (Pow2(retry.maxRetries) - 1)

\* A call with maxRetries = 3 has failed, having waited 7 x baseDelay.
C25_Witness ==
    /\ RetryFailed
    /\ retry.maxRetries = 3
    /\ retry.baseDelay = RetryDefault.baseDelay
    /\ SumOf(retry.waits) = 7 * retry.baseDelay

\* C26: retryWithBackoff returns what the first successful attempt returned
\* and invokes the operation no more after it; an operation that fails twice
\* and then succeeds, with maxRetries = 3, has been invoked exactly 3 times
\* and the call has taken at least baseDelay + 2 x baseDelay.
C26_ReturnsFirstSuccess ==
    /\ RetrySucceeded =>
          /\ retry.calls = Len(retry.errors) + 1
          /\ retry.outcome.value \in Values
    /\ (RetrySucceeded /\ retry.maxRetries = 3 /\ Len(retry.errors) = 2) =>
          /\ retry.calls = 3
          /\ SumOf(retry.waits) = retry.baseDelay + 2 * retry.baseDelay
          /\ clock - retry.since >= retry.baseDelay + 2 * retry.baseDelay

\* GET /retry-demo has answered 200 after two failed attempts and a
\* successful one.
C26_Witness ==
    /\ retry.pc = "answered"
    /\ retry.outcome.ok
    /\ retry.maxRetries = 3
    /\ retry.errors = <<"Random failure", "Random failure">>
    /\ reply.status = 200

\* C27: withTimeout is settled once, by the side that finishes first: with
\* the operation's result or error if the operation settles before
\* timeoutMs has passed, with the timeout error if the timer fires first;
\* once settled, its outcome never changes.
C27_RaceSettledOnceByFirst ==
    /\ [](\A p \in Procs :
            /\ ~race[p].settled => race[p].outcome = Unsettled
            /\ race[p].settled =>
                  /\ race[p].winner = "operation" =>
                        /\ race[p].outcome = race[p].op.result
                        /\ race[p].op.due - race[p].since <= race[p].timeoutMs
                  /\ race[p].winner = "timer" =>
                        /\ race[p].outcome = TimedOut
                        /\ race[p].op.due - race[p].since >= race[p].timeoutMs
                  /\ race[p].op.due - race[p].since < race[p].timeoutMs =>
                        race[p].winner = "operation"
                  /\ race[p].op.due - race[p].since > race[p].timeoutMs =>
                        race[p].winner = "timer")
    /\ [][\A p \in Procs :
             race[p].settled =>
                 /\ race'[p].settled
                 /\ race'[p].outcome = race[p].outcome
                 /\ race'[p].winner = race[p].winner]_vars

\* A call settled with the operation's own error, its timer having fired
\* afterwards.
C27_Witness ==
    \E p \in Procs :
        /\ race[p].winner = "operation"
        /\ race[p].outcome = Thrown
        /\ race[p].timer.state = "fired"
        /\ race[p].op.due - race[p].since < race[p].timeoutMs

\* C28: withTimeout cancels neither side. After the timer has won, the
\* operation is still running, and when it completes its result changes
\* neither the outcome nor the answer; after the operation has won, the
\* timer is still set, and when it fires nothing changes either.
C28_LoserNotCancelled ==
    /\ [](\A p \in Procs :
            race[p].settled =>
                /\ race[p].op.state \in {"pending", "settled"}
                /\ race[p].timer.state \in {"pending", "fired"}
                /\ (race[p].winner = "timer" /\ race[p].op.state = "settled") =>
                      /\ race[p].op.result # Unsettled
                      /\ race[p].outcome = TimedOut)
    /\ [][\A p \in Procs :
             (/\ race[p].settled
              /\ \/ RaceTimerFires(p)
                 \/ \E result \in {Completed, Thrown} :
                       RaceOperationSettles(p, result)) =>
                 /\ reply' = reply
                 /\ race'[p].outcome = race[p].outcome
                 /\ race'[p].pc = race[p].pc]_vars

\* GET /timeout-demo has answered 408 and the operation has completed since.
C28_Witness ==
    \E p \in Procs :
        /\ race[p].pc = "answered"
        /\ race[p].winner = "timer"
        /\ race[p].op.state = "settled"
        /\ race[p].op.result = Completed
        /\ reply.status = 408

-----------------------------------------------------------------------------
(* Cache: properties *)

\* When the entry of the most recent set of key is to expire
ExpiryOf(key) == cache.last[key].at + cache.last[key].ttl * 1000

\* C29 as claimed: an entry written by set(key, value, ttlSeconds) is in the
\* cache, with that value, until ttlSeconds after the most recent set of
\* the key unless del(key) is called, and is absent afterwards.
C29_ExpiresAfterTtl ==
    \A key \in DOMAIN cache.last :
        /\ clock < ExpiryOf(key) =>
              /\ key \in DOMAIN cache.map
              /\ Parse(cache.map[key]) = cache.last[key].value
        /\ clock > ExpiryOf(key) => key \notin DOMAIN cache.map

-----------------------------------------------------------------------------
(* DatabaseService: properties *)

\* C30 as claimed: getUsersWithPostsN1 issues exactly 1 + N queries for N
\* requested user ids (what the route reports as queryCount), and
\* getUsersWithPostsOptimized issues exactly 2 whatever N is.
C30_QueryCounts ==
    db.pc \in {"returned", "answered"} =>
        /\ db.method = "n1" => db.queries = 1 + Len(db.userIds)
        /\ db.method = "optimized" => db.queries = 2

\* C31: for every list of user ids, unknown ids, repeated ids and the empty
\* list included, getUsersWithPostsN1 and getUsersWithPostsOptimized return
\* the same data: the same users in the same order, each with the same
\* posts in the same order, so that the comparison finds them identical.
C31_SameData ==
    (db.caller \in {Comparison, "comparePerformance"} /\ db.pc = "answered") =>
        /\ db.n1Result = db.withPosts
        /\ db.dataMatches = TRUE
        /\ Len(db.withPosts) = Len(FoundUsers(db.userIds))
        /\ \A k \in 1..Len(db.withPosts) :
              /\ db.withPosts[k].user = FoundUsers(db.userIds)[k]
              /\ db.withPosts[k].posts = PostsByUser[db.withPosts[k].user]
        /\ db.caller = Comparison => reply.body.dataConsistency = TRUE

\* A comparison for a known id named twice and an unknown id has been
\* answered: two users with three posts each.
C31_Witness ==
    /\ db.pc = "answered"
    /\ db.caller = Comparison
    /\ db.userIds = <<"user123", "nobody", "user123">>
    /\ Len(db.n1Result) = 2
    /\ Len(db.n1Result[2].posts) = 3
    /\ reply.body.dataConsistency = TRUE

\* The comparison of the empty list has returned.
C31_WitnessEmpty ==
    /\ db.pc = "answered"
    /\ db.caller = "comparePerformance"
    /\ db.userIds = <<>>
    /\ db.dataMatches = TRUE

-----------------------------------------------------------------------------
(* The window limiters: metadata of an allowed request *)

\* The count an allowed request of a window limiter is measured by: the
\* value INCR returned, or the length of the log after requests.push(now)
CountSeen(r) ==
    IF r.limiter = "sliding-window" THEN r.current
    ELSE Len(GetRequests(r.key))

\* X-RateLimit-Limit is MAX_REQUESTS and X-RateLimit-Remaining is
\* max(0, MAX_REQUESTS - count), a whole number from 0 to MAX_REQUESTS - 1
MetadataOf(r) ==
    /\ Header(r, "X-RateLimit-Limit") = String(MAX_REQUESTS)
    /\ Header(r, "X-RateLimit-Remaining") =
           String(Max(0, MAX_REQUESTS - CountSeen(r)))
    /\ \E remaining \in 0..(MAX_REQUESTS - 1) :
           Header(r, "X-RateLimit-Remaining") = String(remaining)

\* C32 as claimed: every allowed request of the fixed-window limiter and of
\* the sliding-log limiter exposes limit = MAX_REQUESTS and remaining =
\* max(0, MAX_REQUESTS - c), c being the counter after the increment or the
\* length of the log after the append.
C32_MetadataOnEveryAllowed ==
    (res.limiter \in {"sliding-window", "sliding-window-mock"}
        /\ res.nextCalls = 1) => MetadataOf(res)

\* C32, amended: every request that the count check of the fixed-window
\* limiter or of the sliding-log limiter allows exposes limit = MAX_REQUESTS
\* and remaining = max(0, MAX_REQUESTS - c), a whole number from 0 to
\* MAX_REQUESTS - 1; a request of the fixed-window limiter that is allowed
\* because a store operation failed exposes neither header.
C32_MetadataWhenCounted ==
    (res.limiter \in {"sliding-window", "sliding-window-mock"}
        /\ res.nextCalls = 1) =>
        IF res.failed = "none"
        THEN MetadataOf(res)
        ELSE /\ Header(res, "X-RateLimit-Limit") = "(unset)"
             /\ Header(res, "X-RateLimit-Remaining") = "(unset)"

\* The 100th request of a fixed window was allowed with remaining = 0.
C32_Witness ==
    /\ res.limiter = "sliding-window" /\ res.failed = "none"
    /\ res.nextCalls = 1
    /\ res.current = MAX_REQUESTS
    /\ Header(res, "X-RateLimit-Remaining") = "0"

-----------------------------------------------------------------------------
(* Token bucket and sliding log: one identity's state *)

\* A map after a check for key: every other key's entry is as it was, and no
\* key other than key is new.
OthersUntouched(before, after, key) ==
    /\ DOMAIN after \subseteq DOMAIN before \cup {key}
    /\ \A k \in DOMAIN before \ {key} : k \in DOMAIN after /\ after[k] = before[k]

\* C33: an admission check of the token bucket or of the sliding log for one
\* identity leaves the stored state of every other identity as it was, and
\* the first request ever made by an identity is allowed whatever the other
\* identities have sent.
C33_IdentityIsolation ==
    [][\A ip \in Ips :
          /\ TokenBucketLimiter(ip) =>
                /\ OthersUntouched(buckets, buckets', KeyOf(ip))
                /\ KeyOf(ip) \notin DOMAIN buckets =>
                      res'.nextCalls = 1 /\ res'.status # 429
          /\ MockSlidingWindowLimiterWith(ip, Example.windowSeconds,
                                          Example.maxRequests) =>
                /\ OthersUntouched(windowRequests, windowRequests', KeyOf(ip))
                /\ KeyOf(ip) \notin DOMAIN windowRequests =>
                      res'.nextCalls = 1 /\ res'.status # 429]_vars

\* Another identity has used up its bucket, and the first request of
\* 10.0.0.1 has just been allowed from a full bucket of its own.
C33_Witness ==
    /\ limiter = "token-bucket"
    /\ DOMAIN buckets = {"unknown", "10.0.0.1"}
    /\ buckets["unknown"].tokens < Tokens(REQUEST_COST)
    /\ buckets["10.0.0.1"].tokens = Tokens(BUCKET_CAPACITY - REQUEST_COST)
    /\ buckets["10.0.0.1"].lastRefill = now
    /\ res.key = "10.0.0.1" /\ res.nextCalls = 1

\* The same for the sliding log: the log of another identity is full.
C33_WitnessLog ==
    /\ limiter = "sliding-window-mock"
    /\ DOMAIN windowRequests = {"unknown", "10.0.0.1"}
    /\ Len(windowRequests["unknown"]) = Example.maxRequests
    /\ windowRequests["10.0.0.1"] = <<now>>
    /\ res.key = "10.0.0.1" /\ res.nextCalls = 1

-----------------------------------------------------------------------------
(* UserService: properties *)

\* C39 as claimed: once invalidateUser(u) has completed, the cache holds no
\* entry for u until a getUserProfile(u) that started after the
\* invalidation writes one; a getUserProfile(u) that had missed the cache
\* before the invalidation does not write the entry back.
C39_NoRepopulationByEarlierCall ==
    \A u \in UserIds :
        (user.invalidations[u] > 0 /\ GetCacheKey(u) \in DOMAIN cache.map) =>
            user.written[u] = user.invalidations[u]

\* C40: a call of retryWithBackoff whose operation settles at every
\* invocation terminates: it settles after the first success or after
\* maxRetries + 1 failures and at no other point, its outcome never changes
\* afterwards, and a request that is served meanwhile leaves it as it is.
\* While it awaits the operation or its backoff timer, another request can
\* be answered.
SettledByTheLoop ==
    \/ /\ retry.outcome.ok
       /\ Len(retry.errors) = retry.calls - 1
       /\ retry.calls <= retry.maxRetries + 1
    \/ /\ ~retry.outcome.ok
       /\ Len(retry.errors) = retry.maxRetries + 1
       /\ retry.calls = retry.maxRetries + 1
C40_TerminatesWithoutBlocking ==
    /\ (retry.pc # "idle") ~> RetrySettled
    /\ [](RetrySettled => SettledByTheLoop)
    /\ [](retry.pc \in {"operation", "timer"} => ENABLED HealthRequest)
    /\ [][/\ RetrySettled => (RetrySettled' /\ retry'.outcome = retry.outcome)
          /\ HealthRequest => retry' = retry]_vars
\* A health check was answered strictly inside the second backoff wait.
C40_Witness ==
    /\ retry.pc = "timer"
    /\ Len(retry.waits) = 2
    /\ reply.route = "/health"
    /\ reply.body.timestamp > retry.due - retry.waits[2]
    /\ reply.body.timestamp < retry.due

====
